---- MODULE Spec2Model ----
(***************************************************************************)
(* A model of the AI Habit Coach state engine: the habit/mood store of     *)
(* AppContext.tsx, the facial mood classifier and detection loop of        *)
(* WebcamMoodDetector.tsx, and the coaching summarizer generateCoaching.   *)
(*                                                                         *)
(* Calendar dates ("YYYY-MM-DD") and ISO timestamps are modelled by their  *)
(* day number; strings typed by the user are sequences of characters.      *)
(***************************************************************************)
EXTENDS Integers, Sequences, FiniteSets, TLC

\* ------------------------------------------------------------------ bounds
\* number of ids crypto.randomUUID hands out in one run
MaxUuid == 3
\* the days a completion may be dated
MaxDay == 2
\* completed dates held by all habits together
MaxCompletions == 2

\* the longest mood history and habit list handed to generateCoaching
MaxMoodEntries == 4
MaxCoachHabits == 2

\* detection sessions started in one run
MaxSessions == 2

\* calls of setState between two renders
MaxBatch == 2

\* most habits and most mood entries the analytics components are shown
MaxViewHabits == 2
MaxViewMoods == 2

\* the longest best streak a habit score is computed of; the bonus is capped at 20
MaxBestStreak == 21

\* the longest mood history handed to analyzeMoodPattern
MaxTrendEntries == 7

\* how many generateCoaching calls the components make in one run
MaxCalls == 4

\* ------------------------------------------------------------------ constants of the program
\* detectLoop analyses a frame from the 10th counted one on, keeps the last 10
\* moods and finalizes at the 20th
AnalyzeFrom == 10
WindowSize == 10
FinalizeAt == 20

\* the statistics look back on Array.from({ length: 7 }) days
WeekDays == 7

\* analyzeMood wants the 468 keypoints of the face mesh
KeypointCount == 468

VARIABLES
    state,      \* AppProvider's useState<AppState>
    uuid,       \* how many ids crypto.randomUUID has handed out
    now,        \* the day new Date() reports
    lastOp,     \* the operation that ran last, with the arguments it was called with
    moodLog,    \* every entry handed to addMoodEntry, in call order
    metrics,    \* the facial metrics analyzeMood computes from one frame's keypoints
    mood,       \* what analyzeMood returned for them, "none" before the call
    keypoints,  \* the keypoints argument of analyzeMood
    coachArgs,  \* the arguments of the generateCoaching call under way
    coachPc,    \* where that call stands
    reply,      \* what the external model call came back with
    result,     \* what the promise of generateCoaching resolved to
    activeTab,  \* App's activeTab: AICoach is mounted while it is "coach"
    calls,      \* the generateCoaching calls the effects of App and AICoach made, in order
    dailyFocus, \* App's dailyFocus: the call whose result.focus it holds, 0 for null
    suggestion, \* AICoach's suggestion: the call whose result it holds, 0 for null
    isCameraActive,     \* useState: the camera is on
    streamRef,          \* whether streamRef.current holds a stream
    isAnalyzingRef,     \* isAnalyzingRef.current, set together with the isAnalyzing state
    detectedMoodRef,    \* detectedMoodRef.current, "null" or a mood
    detectionCountRef,  \* frames with a face counted in detectionCountRef.current
    moodHistoryRef,     \* the moods of the last frames, oldest first
    animationRef,       \* the loop whose frame request animationRef.current holds, 0 for none
    error,              \* the status message shown
    chain,              \* per detection loop: waiting for a frame, for an inference, or over
    timeoutTimers,      \* 30-second timers not yet fired
    stopTimers,         \* 2-second timers not yet fired
    session,            \* how many detection sessions were started
    endedBy,            \* per session, what ended it
    webcamLog,          \* the entries the detection loops recorded, in order
    queue,              \* the updaters handed to setState and not yet applied
    storage,            \* the text under STORAGE_KEY in localStorage, empty for none
    effectPending,      \* the effect that writes the state has yet to run
    view,               \* what the analytics components are given to show
    stats               \* what the analytics components last computed

storeVars == <<state, uuid, now, lastOp, moodLog>>

classifierVars == <<metrics, mood, keypoints>>

fetchVars == <<activeTab, calls, dailyFocus, suggestion>>

coachVars == <<coachArgs, coachPc, reply, result, fetchVars>>

detectVars ==
    <<isCameraActive, streamRef, isAnalyzingRef, detectedMoodRef, detectionCountRef,
      moodHistoryRef, animationRef, error, chain, timeoutTimers, stopTimers,
      session, endedBy, webcamLog>>

providerVars == <<queue, storage, effectPending>>

statsVars == <<view, stats>>

vars == <<storeVars, classifierVars, coachVars, detectVars, providerVars, statsVars>>

\* everything outside the store
nonStoreVars == <<classifierVars, coachVars, detectVars, providerVars, statsVars>>

\* ------------------------------------------------------------------ helpers
Range(s) == {s[i] : i \in 1..Len(s)}

\* prev.habits.findIndex(h => h.id === id), 1-based; 0 stands for JavaScript's -1
findIndex(habits, id) ==
    IF \E i \in 1..Len(habits) : habits[i].id = id
    THEN CHOOSE i \in 1..Len(habits) :
             habits[i].id = id /\ \A j \in 1..(i - 1) : habits[j].id # id
    ELSE 0

\* Array.prototype.includes
includes(s, x) == \E i \in 1..Len(s) : s[i] = x

\* String.prototype.trim on a sequence of characters; " " is the whitespace
RECURSIVE trimStart(_)
trimStart(s) ==
    IF s # <<>> /\ Head(s) = " " THEN trimStart(Tail(s)) ELSE s

RECURSIVE trimEnd(_)
trimEnd(s) ==
    IF s # <<>> /\ s[Len(s)] = " " THEN trimEnd(SubSeq(s, 1, Len(s) - 1)) ELSE s

trim(s) == trimEnd(trimStart(s))

\* ------------------------------------------------------------------ the store
Moods == {"Happy", "Stressed", "Tired", "Focused"}
Frequencies == {"daily", "weekly"}
Dates == 1..MaxDay
Ids == 1..MaxUuid

initialState ==
    [habits |-> <<>>, moodHistory |-> <<>>, userName |-> "User", apiKey |-> ""]

\* the updater addHabit hands to setState; id and createdAt are drawn by the caller
addHabit(prev, habitData, id, createdAt) ==
    LET newHabit == [title |-> habitData.title,
                     frequency |-> habitData.frequency,
                     id |-> id,
                     streak |-> 0,
                     completedDates |-> <<>>,
                     createdAt |-> createdAt]
    IN  [prev EXCEPT !.habits = Append(@, newHabit)]

\* a slip: the removal drops the last date instead of the toggled one
newCompletedDatesOf_pop(completedDates, date) ==
    LET isCompleted == includes(completedDates, date)
    IN  IF isCompleted
        THEN SubSeq(completedDates, 1, Len(completedDates) - 1)
        ELSE Append(completedDates, date)

\* toggleHabitCompletion, the new list of dates: the date is removed when it is
\* there and appended when it is not
newCompletedDatesOf(completedDates, date) ==
    LET isCompleted == includes(completedDates, date)
    IN  IF isCompleted
        THEN SelectSeq(completedDates, LAMBDA d : d # date)
        ELSE Append(completedDates, date)

\* a slip: the streak only says whether there is any completion
streakOf_flag(newCompletedDates) ==
    LET sortedDatesLength == Len(newCompletedDates)
    IN  IF sortedDatesLength > 0 THEN 1 ELSE 0

\* toggleHabitCompletion, the streak: sortedDates is a sorted copy of the new
\* dates of which only the length is read
streakOf(newCompletedDates) ==
    LET sortedDatesLength == Len(newCompletedDates)
    IN  IF sortedDatesLength > 0 THEN Len(newCompletedDates) ELSE 0

\* a slip: the date is appended whether or not it is already there
toggleHabitCompletion_append(prev, id, date) ==
    LET habitIndex == findIndex(prev.habits, id)
    IN  IF habitIndex = 0 THEN prev
        ELSE
          LET habit == prev.habits[habitIndex]
              newCompletedDates == Append(habit.completedDates, date)
              streak == streakOf(newCompletedDates)
              updatedHabit ==
                  [habit EXCEPT !.completedDates = newCompletedDates, !.streak = streak]
          IN  [prev EXCEPT !.habits = [@ EXCEPT ![habitIndex] = updatedHabit]]

\* a slip: without the early return an unknown id falls on the last habit
toggleHabitCompletion_noGuard(prev, id, date) ==
    LET found == findIndex(prev.habits, id)
        habitIndex == IF found = 0 THEN Len(prev.habits) ELSE found
    IN  IF habitIndex = 0 THEN prev
        ELSE
          LET habit == prev.habits[habitIndex]
              newCompletedDates == newCompletedDatesOf(habit.completedDates, date)
              streak == streakOf(newCompletedDates)
              updatedHabit ==
                  [habit EXCEPT !.completedDates = newCompletedDates, !.streak = streak]
          IN  [prev EXCEPT !.habits = [@ EXCEPT ![habitIndex] = updatedHabit]]

\* a slip: the updated habit is put in front of the others
toggleHabitCompletion_moveToFront(prev, id, date) ==
    LET habitIndex == findIndex(prev.habits, id)
    IN  IF habitIndex = 0 THEN prev
        ELSE
          LET habit == prev.habits[habitIndex]
              newCompletedDates == newCompletedDatesOf(habit.completedDates, date)
              streak == streakOf(newCompletedDates)
              updatedHabit ==
                  [habit EXCEPT !.completedDates = newCompletedDates, !.streak = streak]
          IN  [prev EXCEPT !.habits =
                  <<updatedHabit>> \o SelectSeq(@, LAMBDA h : h.id # id)]

\* the updater toggleHabitCompletion hands to setState
toggleHabitCompletion(prev, id, date) ==
    LET habitIndex == findIndex(prev.habits, id)
    IN  IF habitIndex = 0 THEN prev
        ELSE
          LET habit == prev.habits[habitIndex]
              newCompletedDates == newCompletedDatesOf(habit.completedDates, date)
              streak == streakOf(newCompletedDates)
              updatedHabit ==
                  [habit EXCEPT !.completedDates = newCompletedDates, !.streak = streak]
          IN  [prev EXCEPT !.habits = [@ EXCEPT ![habitIndex] = updatedHabit]]

\* a slip: the filter keeps the habit it should drop
deleteHabit_keepsOnly(prev, id) ==
    [prev EXCEPT !.habits = SelectSeq(@, LAMBDA h : h.id = id)]

\* the updater deleteHabit hands to setState
deleteHabit(prev, id) ==
    [prev EXCEPT !.habits = SelectSeq(@, LAMBDA h : h.id # id)]

\* a slip: the new entry goes to the end of the history
addMoodEntry_append(prev, entry, id) ==
    LET newEntry == [date |-> entry.date, mood |-> entry.mood,
                     source |-> entry.source, id |-> id]
    IN  [prev EXCEPT !.moodHistory = @ \o <<newEntry>>]

\* the updater addMoodEntry hands to setState
addMoodEntry(prev, entry, id) ==
    LET newEntry == [date |-> entry.date, mood |-> entry.mood,
                     source |-> entry.source, id |-> id]
    IN  [prev EXCEPT !.moodHistory = <<newEntry>> \o @]

\* generateCoaching: moodHistory[0]?.mood || 'Neutral'
recentMoodOf(moodHistory) ==
    IF Len(moodHistory) > 0 THEN moodHistory[1].mood ELSE "Neutral"

\* ------------------------------------------------------------------ the mood classifier
\* analyzeMood computes four ratios from the keypoints and scores them.  The
\* ratios avgEAR, browRatio and smileRatio are given in hundredths and
\* mouthCurvature, a difference of pixel rows, in tenths; the samples hold a
\* value in every band of the thresholds and the values at the band edges.
EARs == {17, 18, 22, 25, 32, 33}
Curvatures == {-81, -80, -50, -30, -15, -10, -5, 0, 10, 11, 15, 16, 20, 21, 25, 26, 30, 31}
BrowRatios == {11, 12, 14, 15, 16, 22, 23}
SmileRatios == {36, 37, 39, 41, 43, 46}

MetricInputs ==
    [avgEAR : EARs, mouthCurvature : Curvatures,
     browRatio : BrowRatios, smileRatio : SmileRatios]

NoMetrics == [avgEAR |-> 0, mouthCurvature |-> 0, browRatio |-> 0, smileRatio |-> 0]

\* Math.max
Max(a, b) == IF a >= b THEN a ELSE b

\* low eye aspect ratio
tiredScore(m) ==
    IF m.avgEAR < 18 THEN 5
    ELSE IF m.avgEAR < 22 THEN 3
    ELSE IF m.avgEAR < 25 THEN 1
    ELSE 0

\* frown, lowered brows, narrow eyes with lowered brows
stressedScore(m) ==
    LET frown == IF m.mouthCurvature < -80 THEN 5
                 ELSE IF m.mouthCurvature < -50 THEN 4
                 ELSE IF m.mouthCurvature < -30 THEN 3
                 ELSE IF m.mouthCurvature < -15 THEN 2
                 ELSE IF m.mouthCurvature < -5 THEN 1
                 ELSE 0
        brows == IF m.browRatio < 12 THEN 3
                 ELSE IF m.browRatio < 14 THEN 2
                 ELSE IF m.browRatio < 16 THEN 1
                 ELSE 0
        narrow == IF m.avgEAR < 25 /\ m.browRatio < 15 THEN 2 ELSE 0
    IN  frown + brows + narrow

\* wide smile with raised corners, less 2 (not below 0) on any frown
happyScore(m) ==
    LET smile == IF m.mouthCurvature > 30 /\ m.smileRatio > 45 THEN 5
                 ELSE IF m.mouthCurvature > 25 /\ m.smileRatio > 42 THEN 4
                 ELSE IF m.mouthCurvature > 20 /\ m.smileRatio > 40 THEN 3
                 ELSE IF m.mouthCurvature > 15 /\ m.smileRatio > 38 THEN 2
                 ELSE IF m.mouthCurvature > 10 /\ m.smileRatio > 36 THEN 1
                 ELSE 0
    IN  IF m.mouthCurvature < 0 THEN Max(0, smile - 2) ELSE smile

\* neutral mouth, normal eyes, normal brows
focusedScore(m) ==
    LET isNeutralMouth == m.mouthCurvature >= -10 /\ m.mouthCurvature <= 15
        isNormalEyes == m.avgEAR >= 25 /\ m.avgEAR <= 32
        isNormalBrows == m.browRatio >= 16 /\ m.browRatio <= 22
    IN  IF isNeutralMouth /\ isNormalEyes /\ isNormalBrows THEN 4
        ELSE IF isNeutralMouth /\ isNormalEyes THEN 2
        ELSE IF isNormalEyes /\ m.mouthCurvature >= -15 /\ m.mouthCurvature <= 20 THEN 1
        ELSE 0

\* a slip: the smile's score is filed under Stressed and the frown's under Happy
scoresOf_swapped(m) ==
    << [mood |-> "Tired", score |-> tiredScore(m)],
       [mood |-> "Stressed", score |-> happyScore(m)],
       [mood |-> "Happy", score |-> stressedScore(m)],
       [mood |-> "Focused", score |-> focusedScore(m)] >>

\* the scores array as analyzeMood builds it, before the sort
scoresOf(m) ==
    << [mood |-> "Tired", score |-> tiredScore(m)],
       [mood |-> "Stressed", score |-> stressedScore(m)],
       [mood |-> "Happy", score |-> happyScore(m)],
       [mood |-> "Focused", score |-> focusedScore(m)] >>

\* one step of the stable sort: e goes behind every entry scoring at least as much
RECURSIVE insertByScore(_, _)
insertByScore(e, sorted) ==
    IF sorted = <<>> THEN <<e>>
    ELSE IF Head(sorted).score >= e.score
         THEN <<Head(sorted)>> \o insertByScore(e, Tail(sorted))
         ELSE <<e>> \o sorted

\* scores.sort((a, b) => b.score - a.score): highest first, ties in array order
RECURSIVE sortScores(_)
sortScores(scores) ==
    IF scores = <<>> THEN <<>>
    ELSE insertByScore(scores[Len(scores)],
                       sortScores(SubSeq(scores, 1, Len(scores) - 1)))

\* a slip: the top label is returned whatever its score and its margin
moodFromScores_alwaysTop(sorted) ==
    LET topMood == sorted[1]
    IN  topMood.mood

\* a slip: only the margin of 2 with a top score of 3 is accepted
moodFromScores_wideMarginOnly(sorted) ==
    LET topMood == sorted[1]
        secondMood == sorted[2]
    IN  IF topMood.score = 0 THEN "Focused"
        ELSE IF topMood.score >= 3 /\ topMood.score >= secondMood.score + 2
             THEN topMood.mood
        ELSE "Focused"

\* a slip: a top score shared by two labels is accepted from 2 on
moodFromScores_tieGoesToTop(sorted) ==
    LET topMood == sorted[1]
        secondMood == sorted[2]
    IN  IF topMood.score = 0 THEN "Focused"
        ELSE IF topMood.score >= 3 /\ topMood.score >= secondMood.score + 2
             THEN topMood.mood
        ELSE IF topMood.score >= 2 /\ topMood.score >= secondMood.score
             THEN topMood.mood
        ELSE "Focused"

\* the choice analyzeMood makes from the sorted scores
moodFromScores(sorted) ==
    LET topMood == sorted[1]
        secondMood == sorted[2]
    IN  IF topMood.score = 0 THEN "Focused"
        ELSE IF topMood.score >= 3 /\ topMood.score >= secondMood.score + 2
             THEN topMood.mood
        ELSE IF topMood.score >= 2 /\ topMood.score >= secondMood.score + 1
             THEN topMood.mood
        ELSE "Focused"

\* analyzeMood on a face whose required keypoints are all there
analyzeMood(m) == moodFromScores(sortScores(scoresOf(m)))

\* The keypoints argument: whether an array is given at all, how many points it
\* holds, whether one of the 16 landmarks the metrics need is absent from it,
\* and the metrics the landmarks give when they are all there.
NoKeypoints == [given |-> FALSE, length |-> 0, absent |-> TRUE, metrics |-> NoMetrics]

\* the array of a whole face mesh
WholeFace(m) == [given |-> TRUE, length |-> KeypointCount, absent |-> FALSE, metrics |-> m]

\* no array, an empty one, one a point short with and without its landmarks, and
\* full ones (the mesh without and with the 10 iris points) with a landmark
\* absent and with all of them
KeypointInputs ==
    {NoKeypoints}
    \cup [given : {TRUE}, length : {0, KeypointCount - 1, KeypointCount, KeypointCount + 10},
          absent : {TRUE}, metrics : {NoMetrics}]
    \cup [given : {TRUE}, length : {KeypointCount - 1, KeypointCount, KeypointCount + 10},
          absent : {FALSE}, metrics : MetricInputs]

\* a slip: the array is measured before it is known to be there
analyzeMoodFrom_noNullTest(k) ==
    IF ~k.given THEN "TypeError"
    ELSE IF k.length < KeypointCount THEN "Focused"
    ELSE IF k.absent THEN "Focused"
    ELSE analyzeMood(k.metrics)

\* analyzeMood from its argument on: the test of the array and its length, the
\* test of the landmarks, then the scoring
analyzeMoodFrom(k) ==
    IF ~k.given \/ k.length < KeypointCount THEN "Focused"
    ELSE IF k.absent THEN "Focused"
    ELSE analyzeMood(k.metrics)

\* ------------------------------------------------------------------ the coaching service
\* A text is a sequence of pieces.  A reply of the external model is a sequence
\* of tokens: the fences of a code block (three backquotes, with and without
\* json behind them), blanks, braces, member names (each standing for a
\* "name": value pair), null and prose.
Min(a, b) == IF a <= b THEN a ELSE b

\* Array.prototype.slice(from, to)
slice(s, from, to) == SubSeq(s, from + 1, Min(to, Len(s)))

\* positiveCount in analyzeMoodPattern
positiveCount(moods) ==
    Cardinality({i \in 1..Len(moods) : moods[i].mood \in {"Happy", "Focused"}})

\* a slip: the older window runs to the 7th entry
analyzeMoodPattern_olderToSeventh(moodHistory) ==
    IF Len(moodHistory) = 0 THEN [trend |-> "stable", dominant |-> "Neutral"]
    ELSE
    LET last7Days == slice(moodHistory, 0, 7)
        recentPositive == positiveCount(slice(last7Days, 0, 3))
        olderPositive == positiveCount(slice(last7Days, 3, 7))
        trend == IF recentPositive > olderPositive THEN "improving"
                 ELSE IF recentPositive < olderPositive THEN "declining"
                 ELSE "stable"
    IN  [trend |-> trend, dominant |-> last7Days[1].mood]

analyzeMoodPattern(moodHistory) ==
    IF Len(moodHistory) = 0 THEN [trend |-> "stable", dominant |-> "Neutral"]
    ELSE
    LET last7Days == slice(moodHistory, 0, 7)
        moodCounts(m) == Cardinality({i \in 1..Len(last7Days) : last7Days[i].mood = m})
        firstSeen(m) == CHOOSE i \in 1..Len(last7Days) :
                            /\ last7Days[i].mood = m
                            /\ \A j \in 1..(i - 1) : last7Days[j].mood # m
        seen == {last7Days[i].mood : i \in 1..Len(last7Days)}
        \* entries in order of first appearance, sorted by count with a stable sort
        dominant == CHOOSE m \in seen : \A o \in seen \ {m} :
                        \/ moodCounts(m) > moodCounts(o)
                        \/ moodCounts(m) = moodCounts(o) /\ firstSeen(m) < firstSeen(o)
        recentPositive == positiveCount(slice(last7Days, 0, 3))
        olderPositive == positiveCount(slice(last7Days, 3, 6))
        trend == IF recentPositive > olderPositive THEN "improving"
                 ELSE IF recentPositive < olderPositive THEN "declining"
                 ELSE "stable"
    IN  [trend |-> trend, dominant |-> dominant]

\* habits.filter(h => h.completedDates.includes(today)).length
completedTodayOf(habits, today) ==
    Cardinality({i \in 1..Len(habits) : includes(habits[i].completedDates, today)})

\* the switch on recentMood
moodCoaching(recentMood) ==
    CASE recentMood = "Stressed" ->
            [focus |-> <<"Today, prioritize self-care and stress management.">>,
             improvement |-> <<"Break your habits into smaller, 5-minute chunks.">>,
             encouragement |-> <<"It's completely okay to feel stressed.">>,
             moodInsight |-> <<"Stress often peaks when we try to do too much at once.">>,
             actionItems |-> <<"Take 5 deep breaths right now",
                               "Complete your easiest habit first",
                               "Schedule a 10-minute break for yourself">>]
      [] recentMood = "Tired" ->
            [focus |-> <<"Listen to your body today.">>,
             improvement |-> <<"Consider moving your habit practice">>,
             encouragement |-> <<"Rest is productive too.">>,
             moodInsight |-> <<"Low energy might mean you need better sleep or nutrition.">>,
             actionItems |-> <<"Drink a glass of water",
                               "Do one habit in 2 minutes or less",
                               "Plan an earlier bedtime tonight">>]
      [] recentMood = "Focused" ->
            [focus |-> <<"You're in the zone!">>,
             improvement |-> <<"Use this productive state to batch similar habits">>,
             encouragement |-> <<"Your focus is a superpower!">>,
             moodInsight |-> <<"Focused states are perfect for building new habits.">>,
             actionItems |-> <<"Complete your hardest habit first",
                               "Time-block your remaining habits",
                               "Reflect on what's helping you focus">>]
      [] recentMood = "Happy" ->
            [focus |-> <<"Spread your positive energy!">>,
             improvement |-> <<"Reflect on what made you happy">>,
             encouragement |-> <<"Your positivity is contagious!">>,
             moodInsight |-> <<"Happiness and habit success often reinforce each other.">>,
             actionItems |-> <<"Celebrate today's completed habits",
                               "Share your progress with someone",
                               "Set a stretch goal for tomorrow">>]
      [] OTHER ->
            [focus |-> <<"Stay consistent with your daily routine">>,
             improvement |-> <<"Try to complete your habits earlier in the day">>,
             encouragement |-> <<"Every day is a chance to grow.">>,
             moodInsight |-> <<"Tracking your mood helps you understand">>,
             actionItems |-> <<"Check off one habit right now",
                               "Log your current mood",
                               "Review your progress this week">>]

\* a slip: the band of 70% and more is asked for first
adjustForCompletion_praiseFirst(c, completedToday, totalHabits) ==
    IF totalHabits > 0 /\ 10 * completedToday >= 7 * totalHabits
    THEN [c EXCEPT !.encouragement = <<"Great job! You've completed ",
                                       ToString(completedToday), " out of ",
                                       ToString(totalHabits),
                                       " habits. You're on fire!">>]
    ELSE IF totalHabits > 0 /\ 10 * completedToday < 3 * totalHabits
    THEN [c EXCEPT !.improvement = <<"Start with just one habit right now.">>,
                   !.actionItems = <<"Pick your easiest habit and do it now",
                                     "Set a 5-minute timer and start",
                                     "Forgive yourself and move forward">>]
    ELSE c

\* the adjustment by completion rate; completedToday / totalHabits is compared
\* with 1, 0.3 and 0.7 in tenths
adjustForCompletion(c, completedToday, totalHabits) ==
    IF totalHabits > 0 /\ completedToday = totalHabits
    THEN [c EXCEPT !.improvement = <<"Perfect score today!">>,
                   !.encouragement = <<"Outstanding! You've completed everything.">>,
                   !.actionItems = Append(@, "Reward yourself for 100% completion")]
    ELSE IF totalHabits > 0 /\ 10 * completedToday < 3 * totalHabits
    THEN [c EXCEPT !.improvement = <<"Start with just one habit right now.">>,
                   !.actionItems = <<"Pick your easiest habit and do it now",
                                     "Set a 5-minute timer and start",
                                     "Forgive yourself and move forward">>]
    ELSE IF totalHabits > 0 /\ 10 * completedToday >= 7 * totalHabits
    THEN [c EXCEPT !.encouragement = <<"Great job! You've completed ",
                                       ToString(completedToday), " out of ",
                                       ToString(totalHabits),
                                       " habits. You're on fire!">>]
    ELSE c

\* the sentence the trend adds to moodInsight
addTrendInsight(c, trend) ==
    IF trend = "improving"
    THEN [c EXCEPT !.moodInsight = @ \o <<" Your mood has been improving lately">>]
    ELSE IF trend = "declining"
    THEN [c EXCEPT !.moodInsight = @ \o <<" Your mood seems lower recently.">>]
    ELSE c

\* a JSON value: null, or an object given by its members
JNull == [type |-> "null"]
JObject(members) == [type |-> "object", members |-> members]

\* the bundle generateCoaching builds itself
mockCoaching(habits, moodHistory, today) ==
    JObject(addTrendInsight(
                adjustForCompletion(moodCoaching(recentMoodOf(moodHistory)),
                                    completedTodayOf(habits, today), Len(habits)),
                analyzeMoodPattern(moodHistory).trend))

MemberNames == {"focus", "improvement", "encouragement", "moodInsight", "actionItems"}

\* text.replace(/```json/g, '').replace(/```/g, '').trim()
cleanJson(text) ==
    trim(SelectSeq(SelectSeq(text, LAMBDA t : t # "(fence)json"), LAMBDA t : t # "(fence)"))

\* whether JSON.parse accepts the string
isJson(jsonStr) ==
    \/ jsonStr = <<"null">>
    \/ /\ Len(jsonStr) >= 2
       /\ jsonStr[1] = "{"
       /\ jsonStr[Len(jsonStr)] = "}"
       /\ \A i \in 2..(Len(jsonStr) - 1) : jsonStr[i] \in MemberNames

\* generateCoaching returns whatever JSON.parse gives it
acceptsParsed(jsonStr) == isJson(jsonStr)

\* JSON.parse of an accepted string
jsonParse(jsonStr) ==
    IF jsonStr = <<"null">> THEN JNull
    ELSE JObject([f \in {jsonStr[i] : i \in 2..(Len(jsonStr) - 1)} |-> <<"text of the model">>])

\* texts the external model may answer with
ReplyTexts ==
    { <<"{", "focus", "improvement", "encouragement", "}">>,
      <<"(fence)json", " ", "{", "focus", "improvement", "encouragement",
        "moodInsight", "actionItems", "}", " ", "(fence)">>,
      <<"{", "}">>,
      <<"{", "focus", "}">>,
      <<"null">>,
      <<"Sorry, I cannot help with that.">>,
      <<"(fence)json", " ", "{", "focus">>,
      <<>> }

NoArgs == [habits |-> <<>>, moodHistory |-> <<>>, apiKey |-> ""]
NoReply == [kind |-> "none"]
NoResult == [type |-> "none"]

\* ------------------------------------------------------------------ the detection session
Sessions == 1..MaxSessions

\* what the frames of a session may show: a broad smile, a neutral face
FrameMetrics ==
    { [avgEAR |-> 25, mouthCurvature |-> 31, browRatio |-> 16, smileRatio |-> 46],
      [avgEAR |-> 25, mouthCurvature |-> 0, browRatio |-> 16, smileRatio |-> 36] }

\* moodHistoryRef.current.push(mood), then shift() when more than 10 are held
pushMood(history, m) ==
    LET pushed == Append(history, m)
    IN  IF Len(pushed) > WindowSize THEN Tail(pushed) ELSE pushed

\* the keys of moodCounts in the order of the literal
MoodOrder == <<"Happy", "Stressed", "Tired", "Focused">>

\* the most frequent mood of the window, the first of MoodOrder among equals
finalMoodOf(history) ==
    LET moodCounts(m) == Cardinality({i \in 1..Len(history) : history[i] = m})
        best == CHOOSE k \in 1..Len(MoodOrder) :
                    /\ \A j \in 1..Len(MoodOrder) :
                            moodCounts(MoodOrder[j]) <= moodCounts(MoodOrder[k])
                    /\ \A j \in 1..(k - 1) :
                            moodCounts(MoodOrder[j]) < moodCounts(MoodOrder[k])
    IN  MoodOrder[best]

\* detectLoop up to its first await: it returns at once when no session is
\* analysing or the stream is gone, asks for another frame when the video is
\* not ready, and starts an inference otherwise
loopEntry(analyzing, stream, ready) ==
    IF ~analyzing \/ ~stream THEN "over"
    ELSE IF ~ready THEN "frame"
    ELSE "inference"

\* cancelAnimationFrame(animationRef.current): the request it names, if still
\* pending, is dropped
cancelFrame(ch, ref) ==
    IF ref # 0 /\ ch[ref] = "frame" THEN [ch EXCEPT ![ref] = "over"] ELSE ch

\* ------------------------------------------------------------------ JSON
\* A JSON text is a sequence of tokens.  A string token carries what the string
\* holds in the form the model keeps it in: a literal ("str"), the characters
\* the user typed ("chars"), or the number standing for an id or a date
\* ("code"); "num" is a JSON number, "key" a member name with its colon.
Tok(kind) == [kind |-> kind, s |-> "", cs |-> <<>>, n |-> 0]
StrTok(str) == [kind |-> "str", s |-> str, cs |-> <<>>, n |-> 0]
CharsTok(chars) == [kind |-> "chars", s |-> "", cs |-> chars, n |-> 0]
CodeTok(code) == [kind |-> "code", s |-> "", cs |-> <<>>, n |-> code]
NumTok(num) == [kind |-> "num", s |-> "", cs |-> <<>>, n |-> num]
KeyTok(name) == [kind |-> "key", s |-> name, cs |-> <<>>, n |-> 0]

\* the texts of a list, with commas between them
RECURSIVE joinTexts(_)
joinTexts(texts) ==
    IF texts = <<>> THEN <<>>
    ELSE IF Len(texts) = 1 THEN texts[1]
    ELSE texts[1] \o <<Tok(",")>> \o joinTexts(Tail(texts))

jsonArray(texts) == <<Tok("[")>> \o joinTexts(texts) \o <<Tok("]")>>
jsonObject(members) == <<Tok("{")>> \o joinTexts(members) \o <<Tok("}")>>
jsonMember(name, text) == <<KeyTok(name)>> \o text

\* JSON.stringify of a habit
stringifyHabit(h) ==
    jsonObject(<< jsonMember("title", <<CharsTok(h.title)>>),
                  jsonMember("frequency", <<StrTok(h.frequency)>>),
                  jsonMember("id", <<CodeTok(h.id)>>),
                  jsonMember("streak", <<NumTok(h.streak)>>),
                  jsonMember("completedDates",
                             jsonArray([i \in 1..Len(h.completedDates) |->
                                            <<CodeTok(h.completedDates[i])>>])),
                  jsonMember("createdAt", <<CodeTok(h.createdAt)>>) >>)

\* JSON.stringify of a mood entry
stringifyMoodEntry(e) ==
    jsonObject(<< jsonMember("date", <<CodeTok(e.date)>>),
                  jsonMember("mood", <<StrTok(e.mood)>>),
                  jsonMember("source", <<StrTok(e.source)>>),
                  jsonMember("id", <<CodeTok(e.id)>>) >>)

\* a slip: only the habits are written
stringify_habitsOnly(st) ==
    jsonObject(<< jsonMember("habits",
                             jsonArray([i \in 1..Len(st.habits) |->
                                            stringifyHabit(st.habits[i])])),
                  jsonMember("moodHistory", jsonArray(<<>>)),
                  jsonMember("userName", <<StrTok(st.userName)>>),
                  jsonMember("apiKey", <<StrTok(st.apiKey)>>) >>)

\* JSON.stringify(state)
stringify(st) ==
    jsonObject(<< jsonMember("habits",
                             jsonArray([i \in 1..Len(st.habits) |->
                                            stringifyHabit(st.habits[i])])),
                  jsonMember("moodHistory",
                             jsonArray([i \in 1..Len(st.moodHistory) |->
                                            stringifyMoodEntry(st.moodHistory[i])])),
                  jsonMember("userName", <<StrTok(st.userName)>>),
                  jsonMember("apiKey", <<StrTok(st.apiKey)>>) >>)

\* the object a list of name/value pairs stands for; a later pair wins
toObject(pairs) ==
    [k \in {pairs[j][1] : j \in 1..Len(pairs)} |->
        LET last == CHOOSE j \in 1..Len(pairs) :
                        /\ pairs[j][1] = k
                        /\ \A l \in (j + 1)..Len(pairs) : pairs[l][1] # k
        IN  pairs[last][2]]

\* JSON.parse by recursive descent: the value that starts at token i, and the
\* position behind it
RECURSIVE parseValue(_, _)
RECURSIVE parseElements(_, _, _)
RECURSIVE parseMembers(_, _, _)
parseValue(text, i) ==
    LET tok == text[i]
    IN  CASE tok.kind = "str" -> [v |-> tok.s, next |-> i + 1]
          [] tok.kind = "chars" -> [v |-> tok.cs, next |-> i + 1]
          [] tok.kind = "code" -> [v |-> tok.n, next |-> i + 1]
          [] tok.kind = "num" -> [v |-> tok.n, next |-> i + 1]
          [] tok.kind = "[" -> parseElements(text, i + 1, <<>>)
          [] tok.kind = "{" -> parseMembers(text, i + 1, <<>>)

parseElements(text, i, acc) ==
    IF text[i].kind = "]" THEN [v |-> acc, next |-> i + 1]
    ELSE LET r == parseValue(text, i)
         IN  IF text[r.next].kind = ","
             THEN parseElements(text, r.next + 1, Append(acc, r.v))
             ELSE [v |-> Append(acc, r.v), next |-> r.next + 1]

parseMembers(text, i, acc) ==
    IF text[i].kind = "}" THEN [v |-> toObject(acc), next |-> i + 1]
    ELSE LET r == parseValue(text, i + 1)
             pairs == Append(acc, <<text[i].s, r.v>>)
         IN  IF text[r.next].kind = ","
             THEN parseMembers(text, r.next + 1, pairs)
             ELSE [v |-> toObject(pairs), next |-> r.next + 1]

jsonParseState(text) == parseValue(text, 1).v

\* ------------------------------------------------------------------ the provider
NoBlob == <<>>

\* the updaters of setUserName and setApiKey
setUserName(prev, name) == [prev EXCEPT !.userName = name]
setApiKey(prev, key) == [prev EXCEPT !.apiKey = key]

\* a slip: the updater computes from the state of the render that made the call
updaterBase_snapshot(prev, snapshot) == snapshot

\* what an updater computes from: the prev React hands it
updaterBase(prev, snapshot) == prev

\* one queued updater applied; snapshot is the state of the last render
applyUpdater(prev, snapshot, u) ==
    LET base == updaterBase(prev, snapshot)
    IN  CASE u.op = "addHabit" -> addHabit(base, u.habitData, u.id, u.createdAt)
          [] u.op = "toggleHabitCompletion" -> toggleHabitCompletion(base, u.id, u.date)
          [] u.op = "deleteHabit" -> deleteHabit(base, u.id)
          [] u.op = "addMoodEntry" -> addMoodEntry(base, u.entry, u.id)
          [] u.op = "setUserName" -> setUserName(base, u.name)
          [] u.op = "setApiKey" -> setApiKey(base, u.key)

\* React applies the queued updaters in the order of the calls, each to the
\* result of the one before
RECURSIVE applyAll(_, _, _)
applyAll(prev, snapshot, updaters) ==
    IF updaters = <<>> THEN prev
    ELSE applyAll(applyUpdater(prev, snapshot, Head(updaters)), snapshot, Tail(updaters))

\* whether the updater hands back a new object: all do but toggleHabitCompletion
\* on an id no habit has, which returns prev itself
returnsNewObject(prev, u) ==
    u.op = "toggleHabitCompletion" => findIndex(prev.habits, u.id) # 0

\* whether the render ends with another state object than it began with
RECURSIVE changesState(_, _, _)
changesState(prev, snapshot, updaters) ==
    IF updaters = <<>> THEN FALSE
    ELSE \/ returnsNewObject(prev, Head(updaters))
         \/ changesState(applyUpdater(prev, snapshot, Head(updaters)), snapshot,
                         Tail(updaters))

\* ------------------------------------------------------------------ inputs
\* what the form of AddHabitModal may hold when it is submitted: an empty title,
\* a whitespace-only title, and a padded title with text
Forms == {[title |-> <<>>, frequency |-> "daily"],
          [title |-> <<" ">>, frequency |-> "weekly"],
          [title |-> <<" ", "a", " ">>, frequency |-> "weekly"]}

\* a slip: only the empty title is refused, if (!title) return
isBlankTitle_emptyOnly(title) == title = <<>>

\* AddHabitModal.handleSubmit: if (!title.trim()) return
isBlankTitle(title) == trim(title) = <<>>

NoOp == [op |-> "none"]

\* ------------------------------------------------------------------ actions
\* the store as AppProvider builds it with nothing saved
StoreInit ==
    /\ state = initialState
    /\ uuid = 0
    /\ now = 1
    /\ lastOp = NoOp
    /\ moodLog = <<>>

\* no frame is being classified
ClassifierIdle ==
    /\ metrics = NoMetrics
    /\ mood = "none"
    /\ keypoints = NoKeypoints

\* no component has asked for coaching
FetchIdle ==
    /\ activeTab = "habits"
    /\ calls = <<>>
    /\ dailyFocus = 0
    /\ suggestion = 0

\* no generateCoaching call is under way
CoachIdle ==
    /\ coachArgs = NoArgs
    /\ coachPc = "idle"
    /\ reply = NoReply
    /\ result = NoResult
    /\ FetchIdle

\* WebcamMoodDetector as mounted, with the model loaded and the camera off
DetectorInit ==
    /\ isCameraActive = FALSE
    /\ streamRef = FALSE
    /\ isAnalyzingRef = FALSE
    /\ detectedMoodRef = "null"
    /\ detectionCountRef = 0
    /\ moodHistoryRef = <<>>
    /\ animationRef = 0
    /\ error = ""
    /\ chain = [s \in Sessions |-> "none"]
    /\ timeoutTimers = 0
    /\ stopTimers = 0
    /\ session = 0
    /\ endedBy = [s \in Sessions |-> "none"]
    /\ webcamLog = <<>>

\* no analytics component is mounted
NoView == [habits |-> <<>>, moodHistory |-> <<>>, today |-> 0]

NoStats == [kind |-> "none"]

StatsIdle == view = NoView /\ stats = NoStats

\* AppProvider as mounted with nothing saved: no update is queued and the
\* effect of the first render has yet to run
ProviderInit ==
    /\ queue = <<>>
    /\ storage = NoBlob
    /\ effectPending = TRUE

Init ==
    /\ StoreInit
    /\ ClassifierIdle
    /\ CoachIdle
    /\ DetectorInit
    /\ ProviderInit
    /\ StatsIdle

\* AddHabitModal.handleSubmit with the form's title and frequency
HandleSubmit ==
    /\ uuid < MaxUuid
    /\ \E form \in Forms :
         /\ lastOp' = [op |-> "handleSubmit", title |-> form.title]
         /\ IF isBlankTitle(form.title)
            THEN UNCHANGED <<state, uuid>>
            ELSE /\ state' = addHabit(state, [title |-> trim(form.title),
                                              frequency |-> form.frequency],
                                      uuid + 1, now)
                 /\ uuid' = uuid + 1
    /\ UNCHANGED <<now, moodLog, nonStoreVars>>

\* the dates all habits hold, counted
RECURSIVE Completions(_)
Completions(habits) ==
    IF habits = <<>> THEN 0
    ELSE Len(Head(habits).completedDates) + Completions(Tail(habits))

ToggleHabitCompletion ==
    /\ \E id \in Ids, d \in Dates :
         /\ state' = toggleHabitCompletion(state, id, d)
         /\ Completions(state'.habits) <= MaxCompletions
         /\ lastOp' = [op |-> "toggleHabitCompletion", id |-> id]
    /\ UNCHANGED <<uuid, now, moodLog, nonStoreVars>>

DeleteHabit ==
    /\ \E id \in Ids :
         /\ state' = deleteHabit(state, id)
         /\ lastOp' = [op |-> "deleteHabit", id |-> id]
    /\ UNCHANGED <<uuid, now, moodLog, nonStoreVars>>

\* MoodSelector.handleMoodSelect: a manual entry dated now
AddMoodEntry ==
    /\ uuid < MaxUuid
    /\ \E m \in Moods :
         LET entry == [date |-> now, mood |-> m, source |-> "manual"]
         IN  /\ state' = addMoodEntry(state, entry, uuid + 1)
             /\ moodLog' = Append(moodLog, entry)
    /\ lastOp' = [op |-> "addMoodEntry"]
    /\ uuid' = uuid + 1
    /\ UNCHANGED <<now, nonStoreVars>>

\* a direct call of the store's addHabit, with any title
AddHabit ==
    /\ uuid < MaxUuid
    /\ \E form \in Forms :
         /\ state' = addHabit(state, [title |-> form.title, frequency |-> form.frequency],
                              uuid + 1, now)
         /\ lastOp' = [op |-> "addHabit", title |-> form.title]
    /\ uuid' = uuid + 1
    /\ UNCHANGED <<now, moodLog, nonStoreVars>>

\* HabitItem.handleToggle on a habit that is on the screen: today is toggled
HandleToggle ==
    /\ \E i \in 1..Len(state.habits) :
         /\ state' = toggleHabitCompletion(state, state.habits[i].id, now)
         /\ lastOp' = [op |-> "toggleHabitCompletion", id |-> state.habits[i].id]
    /\ UNCHANGED <<uuid, now, moodLog, nonStoreVars>>

Next ==
    \/ HandleSubmit
    \/ ToggleHabitCompletion
    \/ DeleteHabit
    \/ AddMoodEntry

Spec == Init /\ [][Next]_vars

\* the store's operations called directly, next to the form and the habit card
NextApi ==
    \/ AddHabit
    \/ HandleSubmit
    \/ HandleToggle
    \/ DeleteHabit

SpecApi == Init /\ [][NextApi]_vars

\* ------------------------------------------------------------------ the store's claims
habitIds(st) == {st.habits[i].id : i \in 1..Len(st.habits)}

Reverse(s) == [i \in 1..Len(s) |-> s[Len(s) + 1 - i]]

\* C1: from every reachable state, for every habit id and every date d, two
\* calls of toggleHabitCompletion(id, d) in a row leave every habit with the
\* same set of completed dates as before (and the list of habits as long).
C1_ToggleTwiceRestoresDates ==
    \A id \in Ids, d \in Dates :
        LET twice == toggleHabitCompletion(toggleHabitCompletion(state, id, d), id, d)
        IN  /\ Len(twice.habits) = Len(state.habits)
            /\ \A i \in 1..Len(state.habits) :
                 /\ twice.habits[i].id = state.habits[i].id
                 /\ Range(twice.habits[i].completedDates)
                      = Range(state.habits[i].completedDates)

\* the habit toggled last holds two dates: a second toggle of the first of them
\* has to take it out from before the other
C1_Witness ==
    /\ lastOp.op = "toggleHabitCompletion"
    /\ \E i \in 1..Len(state.habits) :
         /\ state.habits[i].id = lastOp.id
         /\ Len(state.habits[i].completedDates) = 2

\* C2: in every reachable state every habit's streak is the number of its
\* completed dates.
C2_StreakIsCount ==
    \A i \in 1..Len(state.habits) :
        state.habits[i].streak = Len(state.habits[i].completedDates)

\* a toggle has brought a habit to two completions
C2_Witness ==
    /\ lastOp.op = "toggleHabitCompletion"
    /\ \E i \in 1..Len(state.habits) :
         /\ state.habits[i].id = lastOp.id
         /\ state.habits[i].streak = 2
         /\ \E j \in 1..Len(state.habits) : state.habits[j].streak = 0

\* C3: in every reachable state no habit's completedDates holds a date twice.
C3_NoDuplicateDates ==
    \A i \in 1..Len(state.habits) :
        LET dates == state.habits[i].completedDates
        IN  \A j, k \in 1..Len(dates) : j # k => dates[j] # dates[k]

\* toggles have put the same date into two habits, once in each
C3_Witness ==
    /\ lastOp.op = "toggleHabitCompletion"
    /\ \E i, j \in 1..Len(state.habits) :
         /\ i # j
         /\ state.habits[i].id = lastOp.id
         /\ state.habits[i].completedDates = <<MaxDay>>
         /\ state.habits[j].completedDates = <<MaxDay>>

\* C8: a call of toggleHabitCompletion with an id no habit has leaves habits,
\* moodHistory, userName and apiKey as they were.
C8_ToggleUnknownIdIsNoOp ==
    [][ (lastOp'.op = "toggleHabitCompletion" /\ lastOp'.id \notin habitIds(state))
          => state' = state ]_vars

\* toggleHabitCompletion ran with an unknown id on a store that holds habits
\* with completions and a mood entry
C8_Witness ==
    /\ lastOp.op = "toggleHabitCompletion"
    /\ lastOp.id \notin habitIds(state)
    /\ \E i \in 1..Len(state.habits) : state.habits[i].completedDates # <<>>
    /\ state.moodHistory # <<>>

\* the title is empty or consists of whitespace only
OnlyWhitespace(title) == \A i \in 1..Len(title) : title[i] = " "

\* stored is typed without the whitespace around it
Trimmed(typed, stored) ==
    /\ stored # <<>>
    /\ stored[1] # " "
    /\ stored[Len(stored)] # " "
    /\ \E k \in 0..Len(typed) :
         /\ k + Len(stored) <= Len(typed)
         /\ SubSeq(typed, k + 1, k + Len(stored)) = stored
         /\ OnlyWhitespace(SubSeq(typed, 1, k))
         /\ OnlyWhitespace(SubSeq(typed, k + Len(stored) + 1, Len(typed)))

\* new is old with exactly one habit more, at the end, and that one fresh
AppendedOne(old, new) ==
    /\ Len(new.habits) = Len(old.habits) + 1
    /\ SubSeq(new.habits, 1, Len(old.habits)) = old.habits
    /\ LET h == new.habits[Len(new.habits)]
       IN  /\ h.streak = 0
           /\ h.completedDates = <<>>
           /\ h.id \notin habitIds(old)
    /\ new.moodHistory = old.moodHistory
    /\ new.userName = old.userName
    /\ new.apiKey = old.apiKey

\* C7 as stated: the store's addHabit refuses an empty or whitespace-only title
\* (habits unchanged) and appends exactly one fresh habit otherwise.
C7_StoreAddHabitRefusesBlank ==
    [][ lastOp'.op = "addHabit" =>
          IF OnlyWhitespace(lastOp'.title)
          THEN state'.habits = state.habits
          ELSE /\ AppendedOne(state, state')
               /\ state'.habits[Len(state'.habits)].title = lastOp'.title ]_vars

\* C7, amended: the blank title is refused by AddHabitModal.handleSubmit, which
\* then leaves the state alone and otherwise appends exactly one fresh habit
\* with the trimmed title; the store's addHabit appends one for every title.
C7_FormRefusesBlank ==
    [][ /\ lastOp'.op = "handleSubmit" =>
             IF OnlyWhitespace(lastOp'.title)
             THEN state' = state
             ELSE /\ AppendedOne(state, state')
                  /\ Trimmed(lastOp'.title, state'.habits[Len(state'.habits)].title)
        /\ lastOp'.op = "addHabit" =>
             /\ AppendedOne(state, state')
             /\ state'.habits[Len(state'.habits)].title = lastOp'.title ]_vars

\* the form was submitted with a whitespace-only title while a habit completed
\* today was in the store, and nothing was added
C7_Witness ==
    /\ lastOp.op = "handleSubmit"
    /\ lastOp.title # <<>>
    /\ OnlyWhitespace(lastOp.title)
    /\ Len(state.habits) = 1
    /\ state.habits[1].completedDates # <<>>
    /\ uuid = 1

\* the habits of new are those of old whose id is not id, in the same order
RemovedOnly(old, new, id) ==
    /\ \A k \in 1..Len(new) : new[k].id # id
    /\ \E f \in [1..Len(new) -> 1..Len(old)] :
         /\ \A k \in 1..Len(new) : new[k] = old[f[k]]
         /\ \A k1, k2 \in 1..Len(new) : k1 < k2 => f[k1] < f[k2]
         /\ \A i \in 1..Len(old) :
              old[i].id # id => \E k \in 1..Len(new) : f[k] = i

\* C9: deleteHabit(id) removes the habit with that id and nothing else, the
\* remaining habits keep their order and the rest of the state stays; a second
\* call, or a call with an id no habit has, changes nothing.
C9_DeleteRemovesOnlyThatHabit ==
    [][ lastOp'.op = "deleteHabit" =>
          /\ RemovedOnly(state.habits, state'.habits, lastOp'.id)
          /\ state'.moodHistory = state.moodHistory
          /\ state'.userName = state.userName
          /\ state'.apiKey = state.apiKey
          /\ deleteHabit(state', lastOp'.id) = state'
          /\ (lastOp'.id \notin habitIds(state) => state' = state) ]_vars

\* deleteHabit took the middle one of three habits away
C9_Witness ==
    /\ lastOp.op = "deleteHabit"
    /\ Len(state.habits) = 2
    /\ state.habits[1].id < lastOp.id
    /\ lastOp.id < state.habits[2].id

\* C24: toggleHabitCompletion on an existing habit changes nothing but that
\* habit's completedDates and streak: its other fields, every other habit, the
\* order of the habits, moodHistory, userName and apiKey stay; addMoodEntry
\* leaves the habits as they are.
C24_ToggleTouchesOnlyDatesAndStreak ==
    [][ /\ (lastOp'.op = "toggleHabitCompletion" /\ lastOp'.id \in habitIds(state)) =>
              /\ Len(state'.habits) = Len(state.habits)
              /\ \A i \in 1..Len(state.habits) :
                     IF state.habits[i].id = lastOp'.id
                     THEN /\ state'.habits[i].id = state.habits[i].id
                          /\ state'.habits[i].title = state.habits[i].title
                          /\ state'.habits[i].frequency = state.habits[i].frequency
                          /\ state'.habits[i].createdAt = state.habits[i].createdAt
                          /\ state'.habits[i].completedDates # state.habits[i].completedDates
                     ELSE state'.habits[i] = state.habits[i]
              /\ state'.moodHistory = state.moodHistory
              /\ state'.userName = state.userName
              /\ state'.apiKey = state.apiKey
        /\ lastOp'.op = "addMoodEntry" =>
              /\ state'.habits = state.habits
              /\ state'.userName = state.userName
              /\ state'.apiKey = state.apiKey ]_vars

\* the second of two habits was toggled, with a mood entry in the history
C24_Witness ==
    /\ lastOp.op = "toggleHabitCompletion"
    /\ Len(state.habits) = 2
    /\ lastOp.id = state.habits[2].id
    /\ state.habits[2].completedDates # <<>>
    /\ state.habits[1].completedDates = <<>>
    /\ Len(state.moodHistory) = 1

\* C10: moodHistory is the entries handed to addMoodEntry, newest first, none
\* changed or dropped (ids apart); recentMood is the mood of the entry added
\* last, and "Neutral" only when none was ever added.
C10_MoodHistoryNewestFirst ==
    /\ Len(state.moodHistory) = Len(moodLog)
    /\ \A i \in 1..Len(moodLog) :
         LET e == state.moodHistory[i]
             added == Reverse(moodLog)[i]
         IN  /\ e.date = added.date
             /\ e.mood = added.mood
             /\ e.source = added.source
    /\ \A i, j \in 1..Len(state.moodHistory) :
         i < j => state.moodHistory[i].id > state.moodHistory[j].id
    /\ recentMoodOf(state.moodHistory) =
         IF moodLog = <<>> THEN "Neutral" ELSE moodLog[Len(moodLog)].mood

\* two entries with different moods were added, with a habit operation after
C10_Witness ==
    /\ Len(moodLog) = 2
    /\ moodLog[1].mood # moodLog[2].mood
    /\ lastOp.op = "toggleHabitCompletion"
    /\ state.habits # <<>>

\* ------------------------------------------------------------------ the classifier alone
\* a frame with any metrics is handed to analyzeMood
ClassifierInit ==
    /\ StoreInit
    /\ metrics \in MetricInputs
    /\ mood = "none"
    /\ keypoints = WholeFace(metrics)
    /\ CoachIdle
    /\ DetectorInit
    /\ ProviderInit
    /\ StatsIdle

Analyze ==
    /\ mood = "none"
    /\ mood' = analyzeMood(metrics)
    /\ UNCHANGED <<metrics, keypoints, storeVars, coachVars, detectVars, providerVars,
                   statsVars>>

NextMood == Analyze

SpecMood == ClassifierInit /\ [][NextMood]_vars

\* the score analyzeMood gives a label
ScoreOfLabel(m, label) ==
    CASE label = "Tired" -> tiredScore(m)
      [] label = "Stressed" -> stressedScore(m)
      [] label = "Happy" -> happyScore(m)
      [] label = "Focused" -> focusedScore(m)

\* the highest of the four scores
TopScore(m) ==
    CHOOSE v \in 0..20 :
        /\ \E l \in Moods : ScoreOfLabel(m, l) = v
        /\ \A l \in Moods : ScoreOfLabel(m, l) <= v

\* the labels that reach it
TopLabels(m) == {l \in Moods : ScoreOfLabel(m, l) = TopScore(m)}

\* the second-highest score: the highest of the other three, the top score
\* itself when two labels share it
SecondScore(m) ==
    IF Cardinality(TopLabels(m)) > 1 THEN TopScore(m)
    ELSE CHOOSE v \in 0..20 :
             /\ \E l \in Moods \ TopLabels(m) : ScoreOfLabel(m, l) = v
             /\ \A l \in Moods \ TopLabels(m) : ScoreOfLabel(m, l) <= v

C17_NoSignalGivesFocused ==
    (mood # "none" /\ \A l \in Moods : ScoreOfLabel(metrics, l) = 0)
    => mood = "Focused"

\* analyzeMood ran on metrics that score 0 for every label
C17_Witness ==
    /\ mood = "Focused"
    /\ \A l \in Moods : ScoreOfLabel(metrics, l) = 0

\* the label scores at least 3 and at least 2 more than each other label
ClearWinner(m, l) ==
    /\ ScoreOfLabel(m, l) >= 3
    /\ \A o \in Moods \ {l} : ScoreOfLabel(m, l) >= ScoreOfLabel(m, o) + 2

\* C18: when one label scores at least 3 and at least 2 more than each of the
\* other three, analyzeMood returns that label.
C18_ClearMarginGivesLabel ==
    \A l \in Moods : (mood # "none" /\ ClearWinner(metrics, l)) => mood = l

\* Happy scored 5, every other label at most 1, and analyzeMood returned Happy
C18_Witness ==
    /\ mood = "Happy"
    /\ happyScore(metrics) = 5
    /\ \A o \in Moods \ {"Happy"} : ScoreOfLabel(metrics, o) <= 1
    /\ ClearWinner(metrics, "Happy")

\* the label scores at least 2 and more than each of the other three
SoleTop(m, l) ==
    /\ ScoreOfLabel(m, l) >= 2
    /\ \A o \in Moods \ {l} : ScoreOfLabel(m, l) > ScoreOfLabel(m, o)

KeypointsInit ==
    /\ StoreInit
    /\ keypoints \in KeypointInputs
    /\ metrics = NoMetrics
    /\ mood = "none"
    /\ CoachIdle
    /\ DetectorInit
    /\ ProviderInit
    /\ StatsIdle

\* the metrics are computed once the array and its landmarks have passed the tests
AnalyzeKeypoints ==
    /\ mood = "none"
    /\ mood' = analyzeMoodFrom(keypoints)
    /\ metrics' = IF keypoints.given /\ keypoints.length >= KeypointCount /\ ~keypoints.absent
                  THEN keypoints.metrics
                  ELSE metrics
    /\ UNCHANGED <<keypoints, storeVars, coachVars, detectVars, providerVars, statsVars>>

NextKeypoints == AnalyzeKeypoints

SpecKeypoints == KeypointsInit /\ [][NextKeypoints]_vars

\* C23: analyzeMood returns one of the four labels for every argument, never
\* raising an error, and Focused when no array is given or the array holds fewer
\* than 468 points.
C23_IncompleteInputGivesFocused ==
    mood # "none" =>
        /\ mood \in Moods
        /\ (~keypoints.given \/ keypoints.length < KeypointCount) => mood = "Focused"

\* an array one point short whose landmarks are all there and show a broad
\* smile: analyzeMood returned Focused without computing the metrics
C23_Witness ==
    /\ mood = "Focused"
    /\ keypoints.given
    /\ keypoints.length = KeypointCount - 1
    /\ ~keypoints.absent
    /\ analyzeMood(keypoints.metrics) = "Happy"
    /\ metrics = NoMetrics

\* ------------------------------------------------------------------ one coaching call
HabitSample(i, done) ==
    [title |-> <<"a">>, frequency |-> "daily", id |-> i,
     streak |-> IF done THEN 1 ELSE 0,
     completedDates |-> IF done THEN <<1>> ELSE <<>>,
     createdAt |-> 1]

CoachHabits ==
    UNION {{[i \in 1..n |-> HabitSample(i, done[i])] : done \in [1..n -> BOOLEAN]}
           : n \in 0..MaxCoachHabits}

MoodSample(id, m) == [date |-> 1, mood |-> m, source |-> "manual", id |-> id]

MoodHistories ==
    UNION {{[i \in 1..n |-> MoodSample(n - i + 1, ms[i])] : ms \in [1..n -> Moods]}
           : n \in 0..MaxMoodEntries}

CoachInit ==
    /\ StoreInit
    /\ ClassifierIdle
    /\ coachArgs \in [habits : CoachHabits, moodHistory : MoodHistories, apiKey : {"", "k"}]
    /\ coachPc = "start"
    /\ reply = NoReply
    /\ result = NoResult
    /\ FetchIdle
    /\ DetectorInit
    /\ ProviderInit
    /\ StatsIdle

\* generateCoaching up to its first await: with a key the model is called,
\* without one the mock's delay starts
GenerateCoaching ==
    /\ coachPc = "start"
    /\ coachPc' = IF coachArgs.apiKey # "" THEN "awaitGemini" ELSE "awaitMock"
    /\ UNCHANGED <<coachArgs, reply, result, fetchVars, storeVars,
                   classifierVars, detectVars, providerVars, statsVars>>

\* the model call resolves with a text: the parsed value is returned, or the
\* SyntaxError of JSON.parse is caught and the mock's delay starts
GeminiAnswers ==
    /\ coachPc = "awaitGemini"
    /\ \E text \in ReplyTexts :
        /\ reply' = [kind |-> "text", text |-> text]
        /\ IF acceptsParsed(cleanJson(text))
           THEN /\ result' = jsonParse(cleanJson(text))
                /\ coachPc' = "resolved"
           ELSE /\ coachPc' = "awaitMock"
                /\ UNCHANGED result
    /\ UNCHANGED <<coachArgs, fetchVars, storeVars,
                   classifierVars, detectVars, providerVars, statsVars>>

\* the model call rejects: the error is caught and the mock's delay starts
GeminiFails ==
    /\ coachPc = "awaitGemini"
    /\ reply' = [kind |-> "rejected"]
    /\ coachPc' = "awaitMock"
    /\ UNCHANGED <<coachArgs, result, fetchVars, storeVars,
                   classifierVars, detectVars, providerVars, statsVars>>

\* the 1500 ms delay ends and the mock bundle is returned
MockDelayEnds ==
    /\ coachPc = "awaitMock"
    /\ result' = mockCoaching(coachArgs.habits, coachArgs.moodHistory, now)
    /\ coachPc' = "resolved"
    /\ UNCHANGED <<coachArgs, reply, fetchVars, storeVars,
                   classifierVars, detectVars, providerVars, statsVars>>

NextCoach == GenerateCoaching \/ GeminiAnswers \/ GeminiFails \/ MockDelayEnds

SpecCoach == CoachInit /\ [][NextCoach]_vars

RequiredMembers == {"focus", "improvement", "encouragement"}

\* the reply is a text JSON.parse accepts, but not an object with the required members
LacksRequiredMembers(text) ==
    /\ isJson(cleanJson(text))
    /\ \/ jsonParse(cleanJson(text)).type # "object"
       \/ ~(RequiredMembers \subseteq DOMAIN jsonParse(cleanJson(text)).members)

\* the four failures of the external call
FailedCall ==
    \/ coachArgs.apiKey = ""
    \/ reply.kind = "rejected"
    \/ reply.kind = "text" /\ ~isJson(cleanJson(reply.text))
    \/ reply.kind = "text" /\ LacksRequiredMembers(reply.text)

\* C5: generateCoaching never rejects and resolves to an object with focus,
\* improvement and encouragement whatever the external call did; without a
\* key, on a transport failure, on a text that is not JSON and on JSON that
\* lacks the required members the result is the mock bundle.
C5_AlwaysRequiredMembers ==
    /\ coachPc # "rejected"
    /\ coachPc = "resolved" =>
        /\ result.type = "object"
        /\ RequiredMembers \subseteq DOMAIN result.members
        /\ FailedCall => result = mockCoaching(coachArgs.habits, coachArgs.moodHistory, now)

\* the model answered {} and generateCoaching resolved to the empty object
C5_Witness ==
    /\ coachPc = "resolved"
    /\ reply.kind = "text"
    /\ reply.text = <<"{", "}">>
    /\ result = JObject(jsonParse(<<"{", "}">>).members)
    /\ DOMAIN result.members = {}

\* ------------------------------------------------------------------ the detector at work
\* the end of detectLoop: another frame is asked for while the session is
\* analysing and no mood is set; when it is not analysing the pending request is
\* cancelled and animationRef cleared
loopTail(ch, ref, s, analyzing, detected) ==
    IF analyzing /\ detected = "null"
    THEN [chain |-> [ch EXCEPT ![s] = "frame"], animationRef |-> s]
    ELSE IF ~analyzing
    THEN [chain |-> [cancelFrame(ch, ref) EXCEPT ![s] = "over"], animationRef |-> 0]
    ELSE [chain |-> [ch EXCEPT ![s] = "over"], animationRef |-> ref]

\* stopCamera: the stream is dropped, the pending frame request cancelled, and
\* the analysis, if one is running, ends with it
stopCamera ==
    /\ streamRef' = FALSE
    /\ chain' = cancelFrame(chain, animationRef)
    /\ isCameraActive' = FALSE
    /\ isAnalyzingRef' = FALSE
    /\ detectedMoodRef' = "null"
    /\ endedBy' = IF isAnalyzingRef
                  THEN [endedBy EXCEPT ![session] = "stopCamera"]
                  ELSE endedBy

\* Start Camera, shown while the camera is off: getUserMedia grants a stream or fails
StartCamera ==
    /\ ~isCameraActive
    /\ detectedMoodRef' = "null"
    /\ detectionCountRef' = 0
    /\ \E granted \in BOOLEAN :
        IF granted
        THEN streamRef' = TRUE /\ isCameraActive' = TRUE /\ error' = ""
        ELSE error' = "Camera error" /\ UNCHANGED <<streamRef, isCameraActive>>
    /\ UNCHANGED <<isAnalyzingRef, moodHistoryRef, animationRef, chain, timeoutTimers,
                   stopTimers, session, endedBy, webcamLog>>
    /\ UNCHANGED <<storeVars, classifierVars, coachVars, providerVars, statsVars>>

\* Stop Camera, enabled while the camera is on and nothing is analysed
StopCamera ==
    /\ isCameraActive
    /\ ~isAnalyzingRef
    /\ stopCamera
    /\ UNCHANGED <<detectionCountRef, moodHistoryRef, animationRef, error, timeoutTimers,
                   stopTimers, session, webcamLog>>
    /\ UNCHANGED <<storeVars, classifierVars, coachVars, providerVars, statsVars>>

\* Detect Mood, enabled while the camera is on and nothing is analysed: the refs
\* are reset, detectLoop runs up to its first await and the 30-second timer is set
StartDetection ==
    /\ isCameraActive
    /\ ~isAnalyzingRef
    /\ session < MaxSessions
    /\ isAnalyzingRef' = TRUE
    /\ detectedMoodRef' = "null"
    /\ detectionCountRef' = 0
    /\ moodHistoryRef' = <<>>
    /\ error' = ""
    /\ session' = session + 1
    /\ \E ready \in BOOLEAN :
        LET entered == loopEntry(TRUE, streamRef, ready)
        IN  /\ chain' = [cancelFrame(chain, animationRef) EXCEPT ![session + 1] = entered]
            /\ animationRef' = IF entered = "frame" THEN session + 1 ELSE animationRef
    /\ timeoutTimers' = timeoutTimers + 1
    /\ UNCHANGED <<isCameraActive, streamRef, stopTimers, endedBy, webcamLog>>
    /\ UNCHANGED <<storeVars, classifierVars, coachVars, providerVars, statsVars>>

\* a requested animation frame arrives and detectLoop runs up to its first await
AnimationFrame ==
    \E s \in Sessions, ready \in BOOLEAN :
        /\ chain[s] = "frame"
        /\ LET entered == loopEntry(isAnalyzingRef, streamRef, ready)
           IN  /\ chain' = [chain EXCEPT ![s] = entered]
               /\ animationRef' = IF entered = "frame" THEN s ELSE animationRef
        /\ UNCHANGED <<isCameraActive, streamRef, isAnalyzingRef, detectedMoodRef,
                       detectionCountRef, moodHistoryRef, error, timeoutTimers,
                       stopTimers, session, endedBy, webcamLog>>
        /\ UNCHANGED <<storeVars, classifierVars, coachVars, providerVars, statsVars>>

\* estimateFaces comes back with no face, or all three attempts fail: nothing is
\* counted and the loop goes to its end
InferenceFindsNothing ==
    \E s \in Sessions :
        /\ chain[s] = "inference"
        /\ LET tail == loopTail(chain, animationRef, s, isAnalyzingRef, detectedMoodRef)
           IN  chain' = tail.chain /\ animationRef' = tail.animationRef
        /\ UNCHANGED <<isCameraActive, streamRef, isAnalyzingRef, detectedMoodRef,
                       detectionCountRef, moodHistoryRef, error, timeoutTimers,
                       stopTimers, session, endedBy, webcamLog>>
        /\ UNCHANGED <<storeVars, classifierVars, coachVars, providerVars, statsVars>>

\* estimateFaces comes back with a face: the frame is counted, analysed from
\* the 10th on, and at the 20th the mood is finalized, saved with addMoodEntry
\* and the 2-second timer set
InferenceFindsFace ==
    \E s \in Sessions, m \in FrameMetrics :
        /\ chain[s] = "inference"
        /\ LET currentCount == detectionCountRef + 1
               history == IF currentCount >= AnalyzeFrom
                          THEN pushMood(moodHistoryRef, analyzeMood(m))
                          ELSE moodHistoryRef
               finalMood == finalMoodOf(history)
               entry == [date |-> now, mood |-> finalMood, source |-> "webcam"]
               tail == loopTail(chain, animationRef, s, isAnalyzingRef, detectedMoodRef)
           IN  /\ detectionCountRef' = currentCount
               /\ IF currentCount >= AnalyzeFrom /\ currentCount >= FinalizeAt
                  THEN /\ detectedMoodRef' = finalMood
                       /\ isAnalyzingRef' = FALSE
                       /\ moodHistoryRef' = <<>>
                       /\ state' = addMoodEntry(state, entry, uuid + 1)
                       /\ uuid' = uuid + 1
                       /\ moodLog' = Append(moodLog, entry)
                       /\ lastOp' = [op |-> "addMoodEntry"]
                       /\ stopTimers' = stopTimers + 1
                       /\ chain' = [chain EXCEPT ![s] = "over"]
                       /\ webcamLog' = Append(webcamLog, [mood |-> finalMood, session |-> s,
                                                          endedBy |-> endedBy[s],
                                                          frame |-> analyzeMood(m)])
                       /\ endedBy' = IF isAnalyzingRef
                                     THEN [endedBy EXCEPT ![session] = "finalized"]
                                     ELSE endedBy
                       /\ UNCHANGED <<animationRef, now>>
                  ELSE /\ moodHistoryRef' = history
                       /\ chain' = tail.chain
                       /\ animationRef' = tail.animationRef
                       /\ UNCHANGED <<isAnalyzingRef, detectedMoodRef, stopTimers,
                                      endedBy, webcamLog, storeVars>>
        /\ UNCHANGED <<isCameraActive, streamRef, error, timeoutTimers, session>>
        /\ UNCHANGED <<classifierVars, coachVars, providerVars, statsVars>>

\* a 30-second timer fires: a session still analysing with no mood set is
\* stopped with the timeout message
TimeoutFires ==
    /\ timeoutTimers > 0
    /\ timeoutTimers' = timeoutTimers - 1
    /\ IF isAnalyzingRef /\ detectedMoodRef = "null"
       THEN /\ isAnalyzingRef' = FALSE
            /\ error' = "Detection timeout"
            /\ endedBy' = [endedBy EXCEPT ![session] = "timeout"]
       ELSE UNCHANGED <<isAnalyzingRef, error, endedBy>>
    /\ UNCHANGED <<isCameraActive, streamRef, detectedMoodRef, detectionCountRef,
                   moodHistoryRef, animationRef, chain, stopTimers, session, webcamLog>>
    /\ UNCHANGED <<storeVars, classifierVars, coachVars, providerVars, statsVars>>

\* a 2-second timer set at finalization fires: stopCamera
StopTimerFires ==
    /\ stopTimers > 0
    /\ stopTimers' = stopTimers - 1
    /\ stopCamera
    /\ UNCHANGED <<detectionCountRef, moodHistoryRef, animationRef, error, timeoutTimers,
                   session, webcamLog>>
    /\ UNCHANGED <<storeVars, classifierVars, coachVars, providerVars, statsVars>>

NextDetect ==
    \/ StartCamera
    \/ StopCamera
    \/ StartDetection
    \/ AnimationFrame
    \/ InferenceFindsNothing
    \/ InferenceFindsFace
    \/ TimeoutFires
    \/ StopTimerFires

SpecDetect == Init /\ [][NextDetect]_vars

\* C6: no mood entry is recorded for a session after the 30-second timeout or
\* stopCamera has ended it, whatever inference was pending at that moment.
C6_NoEntryAfterSessionEnded ==
    \A i \in 1..Len(webcamLog) : webcamLog[i].endedBy \notin {"timeout", "stopCamera"}

\* one session: the timeout message is up, and the session's pending inference
\* has recorded a mood all the same
C6_Witness ==
    /\ session = 1
    /\ endedBy[1] = "timeout"
    /\ error = "Detection timeout"
    /\ Len(webcamLog) = 1
    /\ webcamLog[1].session = 1
    /\ webcamLog[1].endedBy = "timeout"
    /\ Len(state.moodHistory) = 1
    /\ state.moodHistory[1].source = "webcam"

\* the detector as a finished session leaves it: the mood is set, the camera is
\* still on, the stopCamera that follows in 2 seconds and the session's own
\* 30-second timer are pending; sessions are counted from here
DetectorAfterFinalization ==
    /\ isCameraActive = TRUE
    /\ streamRef = TRUE
    /\ isAnalyzingRef = FALSE
    /\ detectedMoodRef \in {analyzeMood(m) : m \in FrameMetrics}
    /\ detectionCountRef = FinalizeAt
    /\ moodHistoryRef = <<>>
    /\ animationRef = 0
    /\ error = ""
    /\ chain = [s \in Sessions |-> "none"]
    /\ timeoutTimers = 1
    /\ stopTimers = 1
    /\ session = 0
    /\ endedBy = [s \in Sessions |-> "none"]
    /\ webcamLog = <<>>

StopInit ==
    /\ StoreInit
    /\ ClassifierIdle
    /\ CoachIdle
    /\ DetectorAfterFinalization
    /\ ProviderInit
    /\ StatsIdle

\* the detector from the end of a session on, before a face that looks neutral
\* in every frame
NextStop ==
    \/ StartCamera
    \/ StopCamera
    \/ StartDetection
    \/ AnimationFrame
    \/ InferenceFindsNothing
    \/ InferenceFindsFace /\ \A i \in 1..Len(moodHistoryRef') : moodHistoryRef'[i] = "Focused"
    \/ TimeoutFires
    \/ StopTimerFires

SpecStop == StopInit /\ [][NextStop]_vars

\* C20: a stopCamera that comes during a detection session stops the tracks,
\* ends the analysis and leaves no frame request of the session pending, and
\* from then on the loop of that session starts no inference.
C20_StopHaltsLoop ==
    [][\A s \in Sessions :
          /\ (endedBy[s] # "stopCamera" /\ endedBy'[s] = "stopCamera")
                => (~streamRef' /\ ~isCameraActive' /\ ~isAnalyzingRef'
                       /\ chain'[s] # "frame")
          /\ (endedBy[s] = "stopCamera" /\ chain[s] # "inference")
                => chain'[s] # "inference"]_vars

\* a session was stopped by stopCamera with an inference pending, the camera
\* was started again, and a later session is analysing next to it
C20_Witness ==
    /\ session = 2
    /\ endedBy[1] = "stopCamera"
    /\ chain[1] = "inference"
    /\ isAnalyzingRef
    /\ streamRef
    /\ chain[2] = "inference"

\* C21: every detection session ends: while a session is analysing, a 30-second
\* timer that will end it is pending (so it ends by a finalized mood, by a stop
\* or by the timeout, face or no face), and once the session has ended its loop
\* asks for no further frame.
C21_SessionsTerminate ==
    [][/\ isAnalyzingRef' => timeoutTimers' > 0
       /\ \A s \in Sessions :
            (endedBy[s] # "none" /\ chain[s] # "frame") => chain'[s] # "frame"]_vars

\* the first session was ended by its timeout with an inference pending, the
\* second one is analysing, and the loop of the first has asked for a frame again
C21_Witness ==
    /\ session = 2
    /\ endedBy[1] = "timeout"
    /\ endedBy[2] = "none"
    /\ isAnalyzingRef
    /\ chain[1] = "frame"
    /\ chain[2] = "inference"
    /\ stopTimers = 0

\* C22: frames are processed one at a time: at most one detectLoop chain is
\* alive (awaiting an inference or a requested frame), and so at most one
\* inference is in progress, also after a timeout, a stop and a new startDetection.
C22_OneFrameAtATime ==
    /\ Cardinality({s \in Sessions : chain[s] = "inference"}) <= 1
    /\ Cardinality({s \in Sessions : chain[s] \in {"frame", "inference"}}) <= 1

\* the inference of the first session, ended by its timeout, is still awaited
\* while the second session awaits its own
C22_Witness ==
    /\ session = 2
    /\ endedBy[1] = "timeout"
    /\ chain[1] = "inference"
    /\ chain[2] = "inference"
    /\ isAnalyzingRef
    /\ detectionCountRef = 0
    /\ stopTimers = 0

\* the session whose 30-second timer fires next: the timers run the same time,
\* so the oldest one pending, set by the oldest of the last timeoutTimers sessions
timerOwner == session - timeoutTimers + 1

\* C26: a session is ended by a timeout only when the timer that fires is the
\* one its own startDetection set, and never by the stopCamera of a 2-second
\* timer, which an earlier finalization has left behind.
C26_OnlyOwnTimers ==
    [][\A s \in Sessions :
          /\ (endedBy[s] # "timeout" /\ endedBy'[s] = "timeout") => timerOwner = s
          /\ (endedBy[s] # "stopCamera" /\ endedBy'[s] = "stopCamera")
                => stopTimers' = stopTimers]_vars

\* the first session finalized a mood, and the second one, started within the
\* next 2 seconds, was ended by the stopCamera the first had scheduled, with the
\* 30-second timers of both still to come
C26_Witness ==
    /\ session = 2
    /\ endedBy[1] = "finalized"
    /\ endedBy[2] = "stopCamera"
    /\ stopTimers = 0
    /\ timeoutTimers = 2
    /\ ~isCameraActive
    /\ Len(webcamLog) = 1

\* C27: a detection session adds at most one webcam entry to moodHistory, and
\* adds it only when 20 frames with keypoints have been counted since its
\* startDetection: an entry is added, by one addMoodEntry with source "webcam",
\* only as the counter reaches 20 in a session that has not finalized before.
C27_OneEntryPerSession ==
    [][Len(webcamLog') # Len(webcamLog) =>
          /\ Len(webcamLog') = Len(webcamLog) + 1
          /\ Len(state'.moodHistory) = Len(state.moodHistory) + 1
          /\ state'.moodHistory[1].source = "webcam"
          /\ session \in Sessions
          /\ endedBy[session] # "finalized"
          /\ detectionCountRef' = FinalizeAt]_vars

\* the second session finalized a mood at its 20th frame, and the inference the
\* loop of the first session still awaited has added another entry at the 21st
C27_Witness ==
    /\ session = 2
    /\ endedBy[1] = "timeout"
    /\ endedBy[2] = "finalized"
    /\ Len(webcamLog) = 2
    /\ webcamLog[1].session = 2
    /\ webcamLog[2].session = 1
    /\ detectionCountRef = FinalizeAt + 1
    /\ Len(state.moodHistory) = 2
    /\ \A i \in 1..2 : state.moodHistory[i].source = "webcam"

\* how often the label is in the window
timesIn(window, l) == Cardinality({i \in 1..Len(window) : window[i] = l})

\* the place of the label in the order Happy, Stressed, Tired, Focused
placeOf(l) == CHOOSE k \in 1..Len(MoodOrder) : MoodOrder[k] = l

\* no label is in the window more often, and none that is in it as often comes
\* earlier in the order
WinsVote(window, l) ==
    \A o \in Moods \ {l} :
        \/ timesIn(window, l) > timesIn(window, o)
        \/ timesIn(window, l) = timesIn(window, o) /\ placeOf(l) < placeOf(o)

\* C28: at finalization the counter stands at 20 and the vote window holds the
\* labels of the frames counted 11 to 20 in the order they were classified (the
\* 10 labels held before, less the oldest, and the label of the 20th frame); the
\* finalized mood is the most frequent label in it, the one earlier in the
\* order Happy, Stressed, Tired, Focused among equals.
C28_MajorityOfLastTen ==
    [][Len(webcamLog') # Len(webcamLog) =>
          LET e == webcamLog'[Len(webcamLog')]
              window == Tail(moodHistoryRef) \o <<e.frame>>
          IN  /\ detectionCountRef' = FinalizeAt
              /\ Len(moodHistoryRef) = WindowSize
              /\ Len(window) = WindowSize
              /\ WinsVote(window, e.mood)
              /\ state'.moodHistory[1].mood = e.mood]_vars

\* two loops alive in one session: the mood was finalized at the 20th frame, and
\* the other loop has finalized once more from a window of one label
C28_Witness ==
    /\ Len(webcamLog) = 2
    /\ detectionCountRef = FinalizeAt + 1
    /\ webcamLog[1].mood = "Focused"
    /\ webcamLog[2].frame = "Happy"
    /\ webcamLog[2].mood = "Happy"
    /\ state.moodHistory[1].mood = "Happy"
    /\ state.moodHistory[2].mood = "Focused"

\* ------------------------------------------------------------------ the provider at work
\* the moods, name and key the calls below hand over
CallMoods == {"Happy"}
CallNames == {"Ann"}
CallKeys == {"k"}

\* handleSubmit with a proper title calls addHabit: the habit is built with a
\* fresh id and the updater queued
CallAddHabit ==
    /\ Len(queue) < MaxBatch
    /\ uuid < MaxUuid
    /\ queue' = Append(queue, [op |-> "addHabit",
                               habitData |-> [title |-> <<"a">>, frequency |-> "daily"],
                               id |-> uuid + 1, createdAt |-> now])
    /\ uuid' = uuid + 1
    /\ lastOp' = [op |-> "call"]
    /\ UNCHANGED <<state, now, moodLog, storage, effectPending>>
    /\ UNCHANGED <<classifierVars, coachVars, detectVars, statsVars>>

\* the check box of a habit on screen calls toggleHabitCompletion for today
CallToggleHabitCompletion ==
    /\ Len(queue) < MaxBatch
    /\ \E i \in 1..Len(state.habits) :
        queue' = Append(queue, [op |-> "toggleHabitCompletion",
                                id |-> state.habits[i].id, date |-> now])
    /\ lastOp' = [op |-> "call"]
    /\ UNCHANGED <<state, uuid, now, moodLog, storage, effectPending>>
    /\ UNCHANGED <<classifierVars, coachVars, detectVars, statsVars>>

\* the delete button of a habit on screen calls deleteHabit
CallDeleteHabit ==
    /\ Len(queue) < MaxBatch
    /\ \E i \in 1..Len(state.habits) :
        queue' = Append(queue, [op |-> "deleteHabit", id |-> state.habits[i].id])
    /\ lastOp' = [op |-> "call"]
    /\ UNCHANGED <<state, uuid, now, moodLog, storage, effectPending>>
    /\ UNCHANGED <<classifierVars, coachVars, detectVars, statsVars>>

\* a mood is picked: the entry gets a fresh id and the updater is queued
CallAddMoodEntry ==
    /\ Len(queue) < MaxBatch
    /\ uuid < MaxUuid
    /\ \E m \in CallMoods :
        queue' = Append(queue, [op |-> "addMoodEntry",
                                entry |-> [date |-> now, mood |-> m, source |-> "manual"],
                                id |-> uuid + 1])
    /\ uuid' = uuid + 1
    /\ lastOp' = [op |-> "call"]
    /\ UNCHANGED <<state, now, moodLog, storage, effectPending>>
    /\ UNCHANGED <<classifierVars, coachVars, detectVars, statsVars>>

CallSetUserName ==
    /\ Len(queue) < MaxBatch
    /\ \E name \in CallNames :
        queue' = Append(queue, [op |-> "setUserName", name |-> name])
    /\ lastOp' = [op |-> "call"]
    /\ UNCHANGED <<state, uuid, now, moodLog, storage, effectPending>>
    /\ UNCHANGED <<classifierVars, coachVars, detectVars, statsVars>>

\* the settings form is saved
CallSetApiKey ==
    /\ Len(queue) < MaxBatch
    /\ \E key \in CallKeys :
        queue' = Append(queue, [op |-> "setApiKey", key |-> key])
    /\ lastOp' = [op |-> "call"]
    /\ UNCHANGED <<state, uuid, now, moodLog, storage, effectPending>>
    /\ UNCHANGED <<classifierVars, coachVars, detectVars, statsVars>>

\* React renders: the effects of the render before have run, the queued
\* updaters are applied in order, and the effect on [state] is due when the
\* state object is another one
Render ==
    /\ queue # <<>>
    /\ ~effectPending
    /\ state' = applyAll(state, state, queue)
    /\ effectPending' = changesState(state, state, queue)
    /\ queue' = <<>>
    /\ lastOp' = [op |-> "render", updaters |-> queue]
    /\ UNCHANGED <<uuid, now, moodLog, storage>>
    /\ UNCHANGED <<classifierVars, coachVars, detectVars, statsVars>>

\* the effect: localStorage.setItem(STORAGE_KEY, JSON.stringify(state))
PersistEffect ==
    /\ effectPending
    /\ storage' = stringify(state)
    /\ effectPending' = FALSE
    /\ lastOp' = [op |-> "persist"]
    /\ UNCHANGED <<state, uuid, now, moodLog, queue>>
    /\ UNCHANGED <<classifierVars, coachVars, detectVars, statsVars>>

\* the initial state of a provider: saved ? JSON.parse(saved) : initialState
savedOrInitial(saved) ==
    IF saved # NoBlob THEN jsonParseState(saved) ELSE initialState

\* the page is loaded again: queued updaters are gone, useState starts from
\* the saved text if there is one, and the first render's effect is due
Reload ==
    /\ state' = savedOrInitial(storage)
    /\ queue' = <<>>
    /\ effectPending' = TRUE
    /\ lastOp' = [op |-> "reload"]
    /\ UNCHANGED <<uuid, now, moodLog, storage>>
    /\ UNCHANGED <<classifierVars, coachVars, detectVars, statsVars>>

\* the provider, one mutation at a time: a handler calls one mutation when
\* nothing is queued
NextProvider ==
    \/ queue = <<>> /\ CallAddHabit
    \/ queue = <<>> /\ CallToggleHabitCompletion
    \/ queue = <<>> /\ CallDeleteHabit
    \/ queue = <<>> /\ CallAddMoodEntry
    \/ queue = <<>> /\ CallSetUserName
    \/ queue = <<>> /\ CallSetApiKey
    \/ Render
    \/ PersistEffect
    \/ Reload

\* the provider with batches: handlers call mutations on habits and moods
\* back to back, up to MaxBatch of them before the next render
NextBatch ==
    \/ CallAddHabit
    \/ CallToggleHabitCompletion
    \/ CallDeleteHabit
    \/ CallAddMoodEntry
    \/ Render
    \/ PersistEffect

SpecBatch == Init /\ [][NextBatch]_vars

\* a render is due: updates are queued and the effects of the last render ran
RenderDue == queue # <<>> /\ ~effectPending

\* the effect of the last render has not run yet
EffectDue == effectPending

\* the step Render takes, told by what it leaves in lastOp: it can be taken
\* exactly when a render is due
RenderStep == RenderDue /\ lastOp' = [op |-> "render", updaters |-> queue]

\* the step PersistEffect takes, which can be taken exactly when the effect is due
PersistStep == EffectDue /\ lastOp' = [op |-> "persist"]

\* React runs a render that is due and the effects of a render: weak fairness
\* of Render and of PersistEffect
SpecProvider ==
    /\ Init /\ [][NextProvider]_vars
    /\ WF_lastOp(RenderStep)
    /\ WF_lastOp(PersistStep)

\* the saved text reads back to the habits and the mood history in memory
Persisted ==
    /\ storage # NoBlob
    /\ jsonParseState(storage).habits = state.habits
    /\ jsonParseState(storage).moodHistory = state.moodHistory

\* C11: every mutation is followed by a write of the whole state: a queued
\* update or a due effect leads to a write; after every write the saved text
\* reads back to the habits and mood history in memory, field for field, and
\* a provider started from the saved text begins in the very same state.
C11_MutationsArePersisted ==
    /\ [](lastOp.op = "persist" => (Persisted /\ savedOrInitial(storage) = state))
    /\ (queue # <<>> \/ effectPending) ~> (lastOp.op = "persist" /\ Persisted)

\* a write has saved a habit with a completion and a mood entry
C11_Witness ==
    /\ lastOp.op = "persist"
    /\ Persisted
    /\ \E i \in 1..Len(state.habits) : state.habits[i].completedDates # <<>>
    /\ state.moodHistory # <<>>
    /\ state.userName = "Ann"

\* the store operation an updater stands for
Applied(st, u) ==
    CASE u.op = "addHabit" -> addHabit(st, u.habitData, u.id, u.createdAt)
      [] u.op = "toggleHabitCompletion" -> toggleHabitCompletion(st, u.id, u.date)
      [] u.op = "deleteHabit" -> deleteHabit(st, u.id)
      [] u.op = "addMoodEntry" -> addMoodEntry(st, u.entry, u.id)
      [] u.op = "setUserName" -> [st EXCEPT !.userName = u.name]
      [] u.op = "setApiKey" -> [st EXCEPT !.apiKey = u.key]

\* the completed dates of the habit with the id
datesOf(st, id) == st.habits[findIndex(st.habits, id)].completedDates

\* C12: two mutations issued before a render are applied one after the other,
\* the second to the result of the first; two toggles on different habits both
\* show, and so do an addHabit and an addMoodEntry.
C12_BackToBackBothApplied ==
    [][(lastOp'.op = "render" /\ Len(queue) = 2) =>
        LET u1 == queue[1]
            u2 == queue[2]
        IN  /\ state' = Applied(Applied(state, u1), u2)
            /\ (u1.op = "toggleHabitCompletion" /\ u2.op = "toggleHabitCompletion"
                    /\ u1.id # u2.id) =>
                  /\ datesOf(state', u1.id) = newCompletedDatesOf(datesOf(state, u1.id), u1.date)
                  /\ datesOf(state', u2.id) = newCompletedDatesOf(datesOf(state, u2.id), u2.date)
            /\ ({u1.op, u2.op} = {"addHabit", "addMoodEntry"}) =>
                  /\ Len(state'.habits) = Len(state.habits) + 1
                  /\ Len(state'.moodHistory) = Len(state.moodHistory) + 1
      ]_vars

\* one render applied two toggles on different habits, both now done today
C12_Witness ==
    /\ lastOp.op = "render"
    /\ Len(lastOp.updaters) = 2
    /\ lastOp.updaters[1].op = "toggleHabitCompletion"
    /\ lastOp.updaters[2].op = "toggleHabitCompletion"
    /\ lastOp.updaters[1].id # lastOp.updaters[2].id
    /\ datesOf(state, lastOp.updaters[1].id) = <<now>>
    /\ datesOf(state, lastOp.updaters[2].id) = <<now>>

\* there is a habit and every habit is completed on the day
AllCompleted(habits, day) ==
    /\ Len(habits) >= 1
    /\ \A i \in 1..Len(habits) : day \in Range(habits[i].completedDates)

\* the texts of the mood template for a mood history
TemplateOf(moodHistory) ==
    moodCoaching(IF moodHistory = <<>> THEN "Neutral" ELSE Head(moodHistory).mood)

\* C19: when the fallback builds the bundle for at least one habit with all
\* habits completed today, whatever the recent mood (or none), improvement and
\* encouragement are the texts of the 100% band and not the mood template's
\* or the 70% band's, and actionItems are the template's three followed by
\* the reward item.
C19_FullCompletionOverride ==
    [][(coachPc = "awaitMock" /\ coachPc' = "resolved"
            /\ AllCompleted(coachArgs.habits, now))
       => /\ result'.type = "object"
          /\ result'.members.improvement = <<"Perfect score today!">>
          /\ result'.members.encouragement = <<"Outstanding! You've completed everything.">>
          /\ result'.members.improvement # TemplateOf(coachArgs.moodHistory).improvement
          /\ result'.members.encouragement # TemplateOf(coachArgs.moodHistory).encouragement
          /\ Len(TemplateOf(coachArgs.moodHistory).actionItems) = 3
          /\ result'.members.actionItems =
                 TemplateOf(coachArgs.moodHistory).actionItems
                     \o <<"Reward yourself for 100% completion">>
          /\ result'.members.focus = TemplateOf(coachArgs.moodHistory).focus]_vars

\* the fallback answered a stressed user who completed both habits today
C19_Witness ==
    /\ coachPc = "resolved"
    /\ reply = NoReply
    /\ coachArgs.apiKey = ""
    /\ Len(coachArgs.habits) = 2
    /\ AllCompleted(coachArgs.habits, now)
    /\ coachArgs.moodHistory # <<>>
    /\ Head(coachArgs.moodHistory).mood = "Stressed"
    /\ result.members.encouragement = <<"Outstanding! You've completed everything.">>
    /\ Len(result.members.actionItems) = 4

\* ------------------------------------------------------------------ the mood trend
\* a positive and a negative mood are enough to tell the trends apart
TrendMoods == {"Happy", "Tired"}

\* the mood histories of up to MaxTrendEntries entries, newest first
TrendHistories ==
    UNION {{[i \in 1..n |-> MoodSample(n - i + 1, ms[i])] : ms \in [1..n -> TrendMoods]}
           : n \in 0..MaxTrendEntries}

\* generateCoaching is called with any of them, with and without a key
TrendInit ==
    /\ StoreInit
    /\ ClassifierIdle
    /\ coachArgs \in [habits : {<<>>}, moodHistory : TrendHistories, apiKey : {"", "k"}]
    /\ coachPc = "start"
    /\ reply = NoReply
    /\ result = NoResult
    /\ FetchIdle
    /\ DetectorInit
    /\ ProviderInit
    /\ StatsIdle

SpecTrend == TrendInit /\ [][NextCoach]_vars

\* the Happy and Focused entries among the from-th to the to-th most recent
PositiveAmong(moodHistory, from, to) ==
    Cardinality({i \in from..to :
                    i <= Len(moodHistory) /\ moodHistory[i].mood \in {"Happy", "Focused"}})

\* the trend the two windows give
TrendOf(moodHistory) ==
    IF PositiveAmong(moodHistory, 1, 3) > PositiveAmong(moodHistory, 4, 6) THEN "improving"
    ELSE IF PositiveAmong(moodHistory, 1, 3) < PositiveAmong(moodHistory, 4, 6) THEN "declining"
    ELSE "stable"

\* the clause a trend adds to moodInsight
TrendClause(trend) ==
    CASE trend = "improving" -> <<" Your mood has been improving lately">>
      [] trend = "declining" -> <<" Your mood seems lower recently.">>
      [] trend = "stable" -> <<>>

\* C29: the trend is improving, declining or stable as the 3 most recent
\* entries hold more, fewer or as many Happy/Focused entries as the 4th to 6th
\* most recent; it is stable for an empty history and never declining for three
\* or fewer entries; the fallback's moodInsight is the mood template's with the
\* trend's clause appended exactly when the trend is not stable.
C29_TrendFromTwoWindows ==
    [][(coachPc = "awaitMock" /\ coachPc' = "resolved")
       => LET h == coachArgs.moodHistory
          IN  /\ analyzeMoodPattern(h).trend = TrendOf(h)
              /\ h = <<>> => TrendOf(h) = "stable"
              /\ Len(h) <= 3 => TrendOf(h) # "declining"
              /\ result'.type = "object"
              /\ result'.members.moodInsight =
                     TemplateOf(h).moodInsight \o TrendClause(TrendOf(h))
              /\ (result'.members.moodInsight # TemplateOf(h).moodInsight)
                     <=> (TrendOf(h) # "stable")]_vars

\* seven entries, the 3 most recent and the 4th to 6th with one Happy each and a
\* Happy 7th: the trend is stable and the fallback added no clause
C29_Witness ==
    /\ coachPc = "resolved"
    /\ Len(coachArgs.moodHistory) = 7
    /\ PositiveAmong(coachArgs.moodHistory, 1, 3) = 1
    /\ PositiveAmong(coachArgs.moodHistory, 4, 6) = 1
    /\ coachArgs.moodHistory[7].mood = "Happy"
    /\ reply.kind = "rejected"
    /\ result.members.moodInsight = TemplateOf(coachArgs.moodHistory).moodInsight

\* ------------------------------------------------------------------ the coaching effects
\* App (always mounted) and AICoach (mounted on the coach tab) each run an
\* effect on [habits, moodHistory, apiKey] that awaits generateCoaching and
\* stores what it resolved to.  A call is kept with its arguments; what a
\* component shows is given by the call it has the result of.
Components == {"App", "AICoach"}

\* the components with the effect, in the order their effects run (a child
\* before its parent)
mountedOn(tab) == IF tab = "coach" THEN <<"AICoach", "App">> ELSE <<"App">>

\* the arguments an effect hands to generateCoaching
depsOf(st) == [habits |-> st.habits, moodHistory |-> st.moodHistory, apiKey |-> st.apiKey]

\* the place in line of a 1500 ms timer set now: behind those already set
nextMockAt(cs) ==
    1 + Cardinality({i \in 1..Len(cs) : cs[i].mockAt > 0})

\* generateCoaching up to its first await: the model call with a key, the
\* mock's delay without one
startCall(cs, c, st) ==
    Append(cs, [by |-> c, args |-> depsOf(st),
                pc |-> IF st.apiKey # "" THEN "awaitGemini" ELSE "awaitMock",
                mockAt |-> IF st.apiKey # "" THEN 0 ELSE nextMockAt(cs)])

\* App fetches only when there is a habit or a mood entry
fetches(c, st) == c = "AICoach" \/ Len(st.habits) > 0 \/ Len(st.moodHistory) > 0

\* the effects of the mounted components after a render with new dependencies
RECURSIVE runEffects(_, _, _)
runEffects(cs, components, st) ==
    IF components = <<>> THEN cs
    ELSE runEffects(IF fetches(Head(components), st)
                    THEN startCall(cs, Head(components), st)
                    ELSE cs,
                    Tail(components), st)

\* an effect with a guard, which the effects do not have: a result is stored
\* only when the component has made no later call
storeResult_latestOnly(cs, i, shown) ==
    IF \E j \in (i + 1)..Len(cs) : cs[j].by = cs[i].by THEN shown ELSE i

\* setDailyFocus(result.focus), setSuggestion(result): whatever was shown is replaced
storeResult(cs, i, shown) == i

\* the state the provider loaded: no habit or one, without or with a key
FetchStates ==
    {[initialState EXCEPT !.habits = hs, !.apiKey = key] :
        hs \in {<<>>, <<HabitSample(1, FALSE)>>}, key \in {"", "k"}}

\* the app as mounted on either tab, the mount effects run
FetchInit ==
    /\ state \in FetchStates
    /\ uuid = 1
    /\ now = 1
    /\ lastOp = NoOp
    /\ moodLog = <<>>
    /\ ClassifierIdle
    /\ coachArgs = NoArgs
    /\ coachPc = "idle"
    /\ reply = NoReply
    /\ result = NoResult
    /\ activeTab \in {"habits", "coach"}
    /\ calls = runEffects(<<>>, mountedOn(activeTab), state)
    /\ dailyFocus = 0
    /\ suggestion = 0
    /\ DetectorInit
    /\ ProviderInit
    /\ StatsIdle

\* a habit card on the habits tab is toggled; the render that follows runs the effects
ToggleAndFetch ==
    /\ activeTab = "habits"
    /\ Len(calls) + Len(mountedOn(activeTab)) <= MaxCalls
    /\ \E i \in 1..Len(state.habits) :
         /\ state' = toggleHabitCompletion(state, state.habits[i].id, now)
         /\ lastOp' = [op |-> "toggleHabitCompletion", id |-> state.habits[i].id]
    /\ calls' = runEffects(calls, mountedOn(activeTab), state')
    /\ UNCHANGED <<uuid, now, moodLog, activeTab, dailyFocus, suggestion>>
    /\ UNCHANGED <<coachArgs, coachPc, reply, result>>
    /\ UNCHANGED <<classifierVars, detectVars, providerVars, statsVars>>

\* the settings form is saved on either tab; the effects run when the key is another one
SaveKeyAndFetch ==
    /\ Len(calls) + Len(mountedOn(activeTab)) <= MaxCalls
    /\ \E key \in {"", "k"} :
         /\ state' = setApiKey(state, key)
         /\ lastOp' = [op |-> "setApiKey", key |-> key]
         /\ calls' = IF key # state.apiKey
                     THEN runEffects(calls, mountedOn(activeTab), state')
                     ELSE calls
    /\ UNCHANGED <<uuid, now, moodLog, activeTab, dailyFocus, suggestion>>
    /\ UNCHANGED <<coachArgs, coachPc, reply, result>>
    /\ UNCHANGED <<classifierVars, detectVars, providerVars, statsVars>>

\* the model answers a call with a text that parses: the component stores the result
GeminiAnswersCall ==
    \E i \in 1..Len(calls) :
        /\ calls[i].pc = "awaitGemini"
        /\ calls' = [calls EXCEPT ![i].pc = "done"]
        /\ IF calls[i].by = "App"
           THEN dailyFocus' = storeResult(calls, i, dailyFocus) /\ UNCHANGED suggestion
           ELSE suggestion' = storeResult(calls, i, suggestion) /\ UNCHANGED dailyFocus
        /\ UNCHANGED <<activeTab, coachArgs, coachPc, reply, result>>
        /\ UNCHANGED <<storeVars, classifierVars, detectVars, providerVars, statsVars>>

\* the model call of a call fails: the error is caught and the mock's delay starts
GeminiFailsCall ==
    \E i \in 1..Len(calls) :
        /\ calls[i].pc = "awaitGemini"
        /\ calls' = [calls EXCEPT ![i].pc = "awaitMock", ![i].mockAt = nextMockAt(calls)]
        /\ UNCHANGED <<activeTab, dailyFocus, suggestion, coachArgs, coachPc, reply, result>>
        /\ UNCHANGED <<storeVars, classifierVars, detectVars, providerVars, statsVars>>

\* the 1500 ms timer set first ends: the mock bundle of that call is stored
MockDelayEndsCall ==
    \E i \in 1..Len(calls) :
        /\ calls[i].pc = "awaitMock"
        /\ \A j \in 1..Len(calls) :
               calls[j].pc = "awaitMock" => calls[j].mockAt >= calls[i].mockAt
        /\ calls' = [calls EXCEPT ![i].pc = "done"]
        /\ IF calls[i].by = "App"
           THEN dailyFocus' = storeResult(calls, i, dailyFocus) /\ UNCHANGED suggestion
           ELSE suggestion' = storeResult(calls, i, suggestion) /\ UNCHANGED dailyFocus
        /\ UNCHANGED <<activeTab, coachArgs, coachPc, reply, result>>
        /\ UNCHANGED <<storeVars, classifierVars, detectVars, providerVars, statsVars>>

NextFetch ==
    \/ ToggleAndFetch
    \/ SaveKeyAndFetch
    \/ GeminiAnswersCall
    \/ GeminiFailsCall
    \/ MockDelayEndsCall

SpecFetch == FetchInit /\ [][NextFetch]_vars

\* the calls a component made
CallsBy(c) == {i \in 1..Len(calls) : calls[i].by = c}

\* the call whose result the component shows
ShownBy(c) == IF c = "App" THEN dailyFocus ELSE suggestion

\* C30: once no call of a component is pending, what it shows is the result of
\* its latest call, computed from the present habits, moodHistory and apiKey:
\* the result of an earlier call never replaces that of a later one.
C30_LatestCallWins ==
    \A c \in Components :
          (CallsBy(c) # {} /\ \A i \in CallsBy(c) : calls[i].pc = "done")
          => /\ \A i \in CallsBy(c) : i <= ShownBy(c)
             /\ ShownBy(c) \in CallsBy(c)
             /\ calls[ShownBy(c)].args = depsOf(state)

\* on the habits tab with a key: the habit was toggled while App's first call
\* was pending, the answer to the second call came first, and dailyFocus holds
\* the focus computed for the habit not yet completed
C30_Witness ==
    /\ activeTab = "habits"
    /\ Len(calls) = 2
    /\ \A i \in 1..2 : calls[i].by = "App" /\ calls[i].pc = "done" /\ calls[i].mockAt = 0
    /\ dailyFocus = 1
    /\ calls[1].args.habits[1].completedDates = <<>>
    /\ state.habits[1].completedDates = <<now>>
    /\ state.apiKey = "k"

\* ---------------------------------------------------------------- analytics
\* Math.round of the fraction num / den, num >= 0 and den > 0: a half goes up
round(num, den) == (2 * num + den) \div (2 * den)

\* a JavaScript number that is the quotient of two integers, not yet rounded
JNumber(num, den) == [type |-> "number", num |-> num, den |-> den]

\* String.prototype.startsWith of a time stamp <<day, time>> and a day
startsWith(date, dateStr) == date[1] = dateStr

\* last7Days in StatsCard: today, yesterday, ... up to six days ago
last7Days(today) == [i \in 1..WeekDays |-> today - (i - 1)]

\* the two forEach loops: every completed date that is in days counts
RECURSIVE countCompleted(_, _)
countCompleted(habits, days) ==
    IF habits = <<>> THEN 0
    ELSE Len(SelectSeq(Head(habits).completedDates, LAMBDA date : includes(days, date)))
         + countCompleted(Tail(habits), days)

\* a slip: every completed date counts, in the last seven days or not
RECURSIVE countEveryDate(_)
countEveryDate(habits) ==
    IF habits = <<>> THEN 0
    ELSE Len(Head(habits).completedDates) + countEveryDate(Tail(habits))

consistency_everyDate(habits, today) ==
    LET totalPossible == Len(habits) * WeekDays
        totalCompleted == countEveryDate(habits)
    IN  IF totalPossible > 0 THEN round(totalCompleted * 100, totalPossible) ELSE 0

\* StatsCard: completions in the last seven days over habits times seven
consistency(habits, today) ==
    LET totalHabits == Len(habits)
        totalPossible == totalHabits * WeekDays
        totalCompleted == countCompleted(habits, last7Days(today))
    IN  IF totalPossible > 0 THEN round(totalCompleted * 100, totalPossible) ELSE 0

\* habits.reduce((max, h) => Math.max(max, h.streak), 0)
RECURSIVE bestStreakOf(_)
bestStreakOf(habits) ==
    IF habits = <<>> THEN 0
    ELSE Max(bestStreakOf(SubSeq(habits, 1, Len(habits) - 1)), habits[Len(habits)].streak)

\* a slip: a habit counts when it was completed on any day
completionRate_anyDay(habits, dateStr) ==
    LET completedCount == Len(SelectSeq(habits, LAMBDA h : h.completedDates # <<>>))
        totalHabits == Len(habits)
    IN  IF totalHabits > 0 THEN JNumber(completedCount * 100, totalHabits)
        ELSE JNumber(0, 1)

\* AnalyticsChart: the share of the habits completed on the day, times 100
completionRate(habits, dateStr) ==
    LET completedCount ==
            Len(SelectSeq(habits, LAMBDA h : includes(h.completedDates, dateStr)))
        totalHabits == Len(habits)
    IN  IF totalHabits > 0 THEN JNumber(completedCount * 100, totalHabits)
        ELSE JNumber(0, 1)

\* the switch on m.mood
moodValue(m) ==
    CASE m = "Happy" -> 100
      [] m = "Focused" -> 80
      [] m = "Tired" -> 40
      [] m = "Stressed" -> 20
      [] OTHER -> 50

\* scores.reduce((a, b) => a + b, 0)
RECURSIVE sumScores(_)
sumScores(scores) ==
    IF scores = <<>> THEN 0
    ELSE sumScores(SubSeq(scores, 1, Len(scores) - 1)) + scores[Len(scores)]

\* the mean of the day's mood values, null when the day has no entry
moodScore(moodHistory, dateStr) ==
    LET daysMoods == SelectSeq(moodHistory, LAMBDA m : startsWith(m.date, dateStr))
        scores == [i \in 1..Len(daysMoods) |-> moodValue(daysMoods[i].mood)]
    IN  IF Len(daysMoods) > 0 THEN JNumber(sumScores(scores), Len(daysMoods))
        ELSE JNull

\* what JavaScript takes for true in the condition moodScore ? ... : null
truthy(x) == x.type # "null" /\ x.num # 0

\* Math.round(x), which makes 0 of null
roundOrZero(x) == IF x.type = "null" THEN 0 ELSE round(x.num, x.den)

\* a slip: the mood is rounded without asking whether there is one
chartPoint_roundsNull(habits, moodHistory, dateStr) ==
    [date |-> dateStr,
     completion |-> roundOrZero(completionRate(habits, dateStr)),
     mood |-> JNumber(roundOrZero(moodScore(moodHistory, dateStr)), 1)]

\* one entry of data; date stands for the day the entry's label names
chartPoint(habits, moodHistory, dateStr) ==
    [date |-> dateStr,
     completion |-> roundOrZero(completionRate(habits, dateStr)),
     mood |-> IF truthy(moodScore(moodHistory, dateStr))
              THEN JNumber(roundOrZero(moodScore(moodHistory, dateStr)), 1)
              ELSE JNull]

\* data: the last seven days, oldest first, date.getDate() - (6 - i)
chartData(habits, moodHistory, today) ==
    [k \in 1..WeekDays |-> chartPoint(habits, moodHistory, today - (6 - (k - 1)))]

\* the day the components are shown on, late enough for a day out of the week
ViewToday == WeekDays + 1

\* completed dates of a habit: none, today, a day out of the week, the whole
\* week, and the week with the day before it
DateSamples ==
    {<<>>, <<ViewToday>>, <<ViewToday - WeekDays>>,
     [i \in 1..WeekDays |-> ViewToday - (i - 1)],
     [i \in 1..(WeekDays + 1) |-> i]}

ViewHabit(i, dates) ==
    [title |-> <<"a">>, frequency |-> "daily", id |-> i,
     streak |-> streakOf(dates), completedDates |-> dates, createdAt |-> 1]

ViewHabits ==
    UNION {{[i \in 1..n |-> ViewHabit(i, ds[i])] : ds \in [1..n -> DateSamples]}
           : n \in 0..MaxViewHabits}

\* the days mood entries are of: today and a day out of the week
ViewMoodDays == {ViewToday, ViewToday - WeekDays}

\* an entry with the time stamp of new Date().toISOString()
ViewMood(id, m, day) ==
    [date |-> <<day, "T09:00:00.000Z">>, mood |-> m, source |-> "manual", id |-> id]

ViewMoods ==
    UNION {{[i \in 1..n |-> ViewMood(n - i + 1, e[i][1], e[i][2])]
            : e \in [1..n -> Moods \X ViewMoodDays]}
           : n \in 0..MaxViewMoods}

\* the components are mounted over some habits and some mood history
StatsInit ==
    /\ StoreInit
    /\ ClassifierIdle
    /\ CoachIdle
    /\ DetectorInit
    /\ ProviderInit
    /\ view \in {[habits |-> h, moodHistory |-> m, today |-> ViewToday]
                 : h \in ViewHabits, m \in ViewMoods}
    /\ stats = NoStats

\* StatsCard renders
ShowStatsCard ==
    /\ stats' = [kind |-> "card",
                 totalHabits |-> Len(view.habits),
                 bestStreak |-> bestStreakOf(view.habits),
                 consistency |-> consistency(view.habits, view.today)]
    /\ UNCHANGED <<view, storeVars, classifierVars, coachVars, detectVars, providerVars>>

\* AnalyticsChart renders
ShowAnalyticsChart ==
    /\ stats' = [kind |-> "chart",
                 data |-> chartData(view.habits, view.moodHistory, view.today)]
    /\ UNCHANGED <<view, storeVars, classifierVars, coachVars, detectVars, providerVars>>

NextStats ==
    \/ ShowStatsCard
    \/ ShowAnalyticsChart

SpecStats == StatsInit /\ [][NextStats]_vars

\* the completions of the habits that fall into the week ending today
WeekCompletions(habits, today) ==
    {<<i, d>> \in (1..Len(habits)) \X ((today - (WeekDays - 1))..today) :
        d \in Range(habits[i].completedDates)}

\* C13: the 7-day consistency on the stats card is an integer from 0 to 100:
\* the completions within the week over seven per habit, as a rounded
\* percentage; it is 0 when there are no habits.
C13_ConsistencyIsPercentage ==
    stats.kind = "card" =>
        /\ stats.consistency \in 0..100
        /\ view.habits = <<>> => stats.consistency = 0
        /\ view.habits # <<>> =>
             stats.consistency =
                 round(100 * Cardinality(WeekCompletions(view.habits, view.today)),
                       WeekDays * Len(view.habits))

\* the card shows 100 for a habit completed on each day of the week, next to
\* a habit that also has a completion older than the week
C13_Witness ==
    /\ stats.kind = "card"
    /\ stats.consistency = 100
    /\ Len(view.habits) = 2
    /\ \E i \in 1..2 : Len(view.habits[i].completedDates) > WeekDays

\* the habits completed on the day
DoneOn(habits, day) == {i \in 1..Len(habits) : day \in Range(habits[i].completedDates)}

\* C14: the same-day completion percentage is the number of habits completed
\* today over the number of habits, times 100: 100 when the only habit is
\* completed today, 0 when there are no habits, and from 0 to 100 always; the
\* chart shows it rounded, and the coach counts the same habits.
C14_TodayCompletion ==
    stats.kind = "chart" =>
        LET n == Len(view.habits)
            done == Cardinality(DoneOn(view.habits, view.today))
            r == completionRate(view.habits, view.today)
        IN  /\ r.den > 0
            /\ n > 0 => r.num * n = 100 * done * r.den
            /\ n = 0 => r.num = 0
            /\ (n = 1 /\ done = 1) => r.num = 100 * r.den
            /\ 0 <= r.num /\ r.num <= 100 * r.den
            /\ stats.data[WeekDays].date = view.today
            /\ stats.data[WeekDays].completion = round(r.num, r.den)
            /\ stats.data[WeekDays].completion \in 0..100
            /\ completedTodayOf(view.habits, view.today) = done

\* the chart shows 100 for today when the only habit is completed today
C14_Witness ==
    /\ stats.kind = "chart"
    /\ Len(view.habits) = 1
    /\ view.habits[1].completedDates = <<view.today>>
    /\ stats.data[WeekDays].completion = 100

\* the value the chart gives a mood
ChartValue == [Happy |-> 100, Focused |-> 80, Tired |-> 40, Stressed |-> 20]

\* the entries of the mood history that are of the day
EntriesOn(moodHistory, day) == {j \in 1..Len(moodHistory) : moodHistory[j].date[1] = day}

RECURSIVE SumOfValues(_, _)
SumOfValues(moodHistory, js) ==
    IF js = {} THEN 0
    ELSE LET j == CHOOSE x \in js : TRUE
         IN  ChartValue[moodHistory[j].mood] + SumOfValues(moodHistory, js \ {j})

\* C16: each of the seven days of the chart has a null mood score exactly when
\* no mood entry is of that day; otherwise the score is the rounded mean of
\* Happy=100, Focused=80, Tired=40, Stressed=20 over the day's entries, from 20
\* to 100 and never 0.
C16_MoodScoreNullOrMean ==
    stats.kind = "chart" =>
        \A k \in 1..WeekDays :
            LET p == stats.data[k]
                js == EntriesOn(view.moodHistory, p.date)
            IN  /\ p.date = view.today - (WeekDays - k)
                /\ p.mood.type = "null" <=> js = {}
                /\ js # {} =>
                     /\ p.mood.num = round(SumOfValues(view.moodHistory, js), Cardinality(js))
                     /\ p.mood.den = 1
                     /\ p.mood.num \in 20..100

\* today has a Happy and a Stressed entry, shown as 60, and the days before
\* have none
C16_Witness ==
    /\ stats.kind = "chart"
    /\ Len(view.moodHistory) = 2
    /\ {view.moodHistory[1].mood, view.moodHistory[2].mood} = {"Happy", "Stressed"}
    /\ stats.data[WeekDays].mood = JNumber(60, 1)
    /\ stats.data[1].mood = JNull

\* ---------------------------------------------------------------- habit score
\* a slip: the streak bonus is taken off instead of added
habitScore_streakOff(consistencyPct, todayCompletion, bestStreak) ==
    round(Max(4 * consistencyPct + 4 * todayCompletion
                  - 2 * Min(bestStreak * 5, 100), 0), 10)

\* round(0.4 x consistency + 0.4 x todayCompletion + 0.2 x min(bestStreak x 5, 100)),
\* in tenths
habitScore(consistencyPct, todayCompletion, bestStreak) ==
    round(4 * consistencyPct + 4 * todayCompletion + 2 * Min(bestStreak * 5, 100), 10)

\* the percentages and streaks the score is computed of
Percents == 0..100

ScoreInputs ==
    [consistency : Percents, todayCompletion : Percents, bestStreak : 0..MaxBestStreak]

ScoreInit ==
    /\ StoreInit
    /\ ClassifierIdle
    /\ CoachIdle
    /\ DetectorInit
    /\ ProviderInit
    /\ view \in ScoreInputs
    /\ stats = NoStats

\* the score is computed of the three inputs
ShowHabitScore ==
    /\ stats' = [kind |-> "score",
                 habitScore |-> habitScore(view.consistency, view.todayCompletion,
                                           view.bestStreak)]
    /\ UNCHANGED <<view, storeVars, classifierVars, coachVars, detectVars, providerVars>>

NextScore == ShowHabitScore

SpecScore == ScoreInit /\ [][NextScore]_vars

\* C15: the habit score does not go down when one of consistency, today's
\* completion and best streak goes up by one and the other two stay: it is
\* monotonically non-decreasing in each input, and stays from 0 to 100.
C15_HabitScoreMonotone ==
    stats.kind = "score" =>
        LET c == view.consistency
            t == view.todayCompletion
            b == view.bestStreak
        IN  /\ stats.habitScore \in 0..100
            /\ c + 1 \in Percents => habitScore(c + 1, t, b) >= stats.habitScore
            /\ t + 1 \in Percents => habitScore(c, t + 1, b) >= stats.habitScore
            /\ habitScore(c, t, b + 1) >= stats.habitScore

\* a score whose streak bonus is capped: one more day of streak adds nothing
C15_Witness ==
    /\ stats.kind = "score"
    /\ view.bestStreak * 5 > 100
    /\ view.consistency = 50
    /\ view.todayCompletion = 100
    /\ stats.habitScore = 80

====
